---- MODULE Spec2Model ----
(***************************************************************************)
(* Verification model of the hierarchical agent execution engine           *)
(* (agent_framework): the shared state store and its memory views, the     *)
(* default policies, the history filters, the Agent plan/act/observe loop  *)
(* and the ManagerAgent delegation paths.                                  *)
(*                                                                         *)
(* Python values are encoded as follows.                                   *)
(*   - a dict is a TLA+ function whose DOMAIN is its key set; d.get(k) is  *)
(*     Get(d, k), which yields None for a missing key;                     *)
(*   - None is the string "None", True/False are "True"/"False" wherever   *)
(*     a dict value may also be a string;                                  *)
(*   - a tool result is a tagged record [k |-> "str" | "dict" | "none" |   *)
(*     "exc", ...] so that isinstance tests are tests of the tag.          *)
(***************************************************************************)
EXTENDS Naturals, Integers, Sequences, FiniteSets, TLC

VARIABLES
    \* ---- SharedStateStore (components/memory.py) ----
    global_feeds,        \* _global_feeds: namespace -> list of updates
    agent_feeds,         \* _agent_feeds: namespace -> agent_key -> list of messages
    conversation_feeds,  \* _conversation_feeds: namespace -> list of turns
    clock,               \* time.time(), as a logical clock
    inmem,               \* the InMemoryMemory instances created so far (their namespaces)
    uuid_next,           \* uuid.uuid4(), as a fresh counter
    lastWriteNs,         \* history variable: the namespace argument of the last write
    write_log,           \* history variable: the appends made so far, in order
    writes,              \* number of writes so far (bounded by MaxWrites)
    \* ---- history filters and completion detector applied to a history ----
    history,             \* the history handed to the filter / the detector
    hphase,              \* "build", "filtered" or "checked"
    filtered,            \* what WorkerHistoryFilter.filter_for_prompt returned
    cd_result,           \* the result handed to is_complete
    cd_answer,           \* what is_complete returned
    \* ---- Agent.run (core/agent.py) ----
    a_pc,                \* "idle", "plan", "execute", "script" or "done"
    cfg,                 \* the policies and request context of the run
    memory,              \* the agent's memory feed
    events,              \* the events published on the event bus, in order
    iteration_count,     \* iteration_count of the loop
    action_history,      \* deque(maxlen=action_window) of action signatures
    observation_history, \* deque(maxlen=observation_window) of observation texts
    actions,             \* the batch of the current iteration
    exec_log,            \* history variable: the tools whose execute() has run
    iter_log,            \* history variable: the iterations whose execution returned
    run_result,          \* what run returned
    script,              \* the script argument of run
    script_idx,          \* the number of script steps taken
    step_records,        \* step_records of _run_script_mode
    \* ---- FileJobStore (state/job_store.py) ----
    executed_actions,    \* job id -> list of executed action signatures
    \* ---- DefaultHITLPolicy.requires_approval asked directly ----
    ra_phase,            \* "idle" or "asked"
    ra_query,            \* the arguments of the call
    ra_answer,           \* what requires_approval returned
    \* ---- ManagerAgent.run (core/manager_v2.py) ----
    m_pc,                \* "idle", "plan", "delegate" or "done"
    m_cfg,               \* the manager's workers and tools, run's strategic_plan
    m_memory,            \* the manager's memory feed
    m_events,            \* the events published on the event bus, in order
    m_mode,              \* "parallel", "script", "phases" or "primary" while delegating
    m_pending,           \* the delegations still to make
    m_results,           \* what the delegations made so far returned
    m_result,            \* what run returned
    m_plan,              \* the strategic plan run works with after the decision
    m_ctx,               \* the request context of the manager's task
    m_seen,              \* history variable: what each worker.run call was given
    m_job,               \* the job of the run in the manager's job store
    \* ---- DefaultTerminationPolicy.should_terminate asked directly ----
    st_phase,            \* "idle" or "asked"
    st_query,            \* the arguments of the call
    st_answer,           \* what should_terminate returned
    \* ---- the request context across a fan-out (services/request_context.py) ----
    rc_pc,               \* "before" the fan-out, "running" children or "joined"
    rc_kind,             \* "workers" (a manager's fan-out) or "tools" (an agent's batch)
    rc_ctx,              \* the request context of the caller's task
    rc_spawn,            \* history variable: the caller's context at the fan-out
    rc_children,         \* per child: the context it runs in, the keys it has updated
    \* ---- threads calling one SharedStateStore (components/memory.py) ----
    th_lock,             \* _lock: the thread that holds it, 0 when free
    th_pc,               \* per thread: its position inside the call it is making
    th_op,               \* per thread: the call it is making
    th_feeds,            \* the feed dicts: feed -> the list object stored, 0 when missing
    th_lists,            \* the list objects created so far
    th_ref,              \* per thread: the list object its lookup gave
    th_calls,            \* the number of calls made so far (bounded by MaxCalls)
    th_returned,         \* history variable: the calls that have returned
    \* ---- workers calling one FileJobStore (state/job_store.py) ----
    fj_file,             \* the job's JSON file, NoneV while it does not exist
    fj_tmp,              \* the job's .json.tmp file, NoneV while it does not exist
    fj_pc,               \* per worker: its position inside the call it is making
    fj_op,               \* per worker: the call it is making
    fj_job,              \* per worker: the Job object it works on
    fj_calls,            \* the number of calls made so far (bounded by MaxJobCalls)
    fj_returned,         \* history variable: the calls that have returned or raised
    \* ---- a caller holding the lists the store returned (components/memory.py) ----
    cp_heap,             \* the list objects: object id -> the entries of the list
    cp_held,             \* the ids of the lists returned to the caller, in order
    cp_added,            \* history variable: feed -> the entries added to it, in order
    cp_returns,          \* history variable: what each list call returned
    cp_changes,          \* the number of changes the caller made to lists it holds
    cp_steps,            \* the number of operations so far (bounded by MaxListOps)
    \* ---- the history filters applied to a history (policies/history_filters.py) ----
    fl_history,          \* the history handed to filter_for_prompt
    fl_applied,          \* NoneV, or the filter applied, its context and what it returned
    \* ---- EventBus (core/events.py) ----
    eb_subscribers,      \* _subscribers: the subscribers in registration order
    eb_log,              \* history variable: what each publish call did
    \* ---- the loop prevention of one run (policies/default.py, core/agent.py) ----
    lp_policy,           \* NoneV, or the DefaultLoopPreventionPolicy of the run
    lp_actions,          \* action_history: deque(maxlen=action_window)
    lp_observations,     \* observation_history: deque(maxlen=observation_window)
    lp_trace,            \* history variable: every action and observation of the run
    lp_asked,            \* history variable: what each detect_stagnation call returned
    lp_ended,            \* TRUE once the run has ended with a stagnation error
    \* ---- several runs of one agent on one memory (core/agent.py) ----
    ru_pc,               \* "idle", "plan", "execute" or "done"
    ru_memory,           \* the agent's memory feed, kept from run to run
    ru_start,            \* the length of the feed when the current run started
    ru_runs,             \* the number of runs started (bounded by MaxRuns)
    ru_iteration,        \* iteration_count of the current run
    ru_history,          \* action_history and observation_history of the current run
    ru_actions,          \* the batch of the current iteration
    ru_log               \* history variable: what the re-plan guard met and did

storeVars == <<global_feeds, agent_feeds, conversation_feeds, clock, inmem,
               uuid_next, lastWriteNs, write_log, writes>>

histVars == <<history, hphase, filtered, cd_result, cd_answer>>

agentVars == <<a_pc, cfg, memory, events, iteration_count, action_history,
               observation_history, actions, exec_log, iter_log, run_result, script,
               script_idx, step_records>>

jobVars == <<executed_actions>>

hitlVars == <<ra_phase, ra_query, ra_answer>>

mgrVars == <<m_pc, m_cfg, m_memory, m_events, m_mode, m_pending, m_results, m_result,
             m_plan, m_ctx, m_seen, m_job>>

termVars == <<st_phase, st_query, st_answer>>

rcVars == <<rc_pc, rc_kind, rc_ctx, rc_spawn, rc_children>>

thVars == <<th_lock, th_pc, th_op, th_feeds, th_lists, th_ref, th_calls, th_returned>>

fjVars == <<fj_file, fj_tmp, fj_pc, fj_op, fj_job, fj_calls, fj_returned>>

cpVars == <<cp_heap, cp_held, cp_added, cp_returns, cp_changes, cp_steps>>

flVars == <<fl_history, fl_applied>>

ebVars == <<eb_subscribers, eb_log>>

lpVars == <<lp_policy, lp_actions, lp_observations, lp_trace, lp_asked, lp_ended>>

ruVars == <<ru_pc, ru_memory, ru_start, ru_runs, ru_iteration, ru_history, ru_actions, ru_log>>

vars == <<storeVars, histVars, agentVars, jobVars, hitlVars, mgrVars, termVars, rcVars, thVars, fjVars, cpVars, flVars, ebVars, lpVars, ruVars>>

\* what the operations of one group leave alone
notStoreVars == <<histVars, agentVars, jobVars, hitlVars, mgrVars, termVars, rcVars, thVars, fjVars, cpVars, flVars, ebVars, lpVars, ruVars>>
notHistVars == <<storeVars, agentVars, jobVars, hitlVars, mgrVars, termVars, rcVars, thVars, fjVars, cpVars, flVars, ebVars, lpVars, ruVars>>
notAgentVars == <<storeVars, histVars, mgrVars, termVars, rcVars, thVars, fjVars, cpVars, flVars, ebVars, lpVars, ruVars>>
notMgrVars == <<storeVars, histVars, agentVars, jobVars, hitlVars, termVars, rcVars, thVars, fjVars, cpVars, flVars, ebVars, lpVars, ruVars>>
notTermVars == <<storeVars, histVars, agentVars, jobVars, hitlVars, mgrVars, rcVars, thVars, fjVars, cpVars, flVars, ebVars, lpVars, ruVars>>
notRcVars == <<storeVars, histVars, agentVars, jobVars, hitlVars, mgrVars, termVars, thVars, fjVars, cpVars, flVars, ebVars, lpVars, ruVars>>
notThVars == <<storeVars, histVars, agentVars, jobVars, hitlVars, mgrVars, termVars, rcVars, fjVars, cpVars, flVars, ebVars, lpVars, ruVars>>
notFjVars == <<storeVars, histVars, agentVars, jobVars, hitlVars, mgrVars, termVars, rcVars, thVars, cpVars, flVars, ebVars, lpVars, ruVars>>
notCpVars == <<storeVars, histVars, agentVars, jobVars, hitlVars, mgrVars, termVars, rcVars, thVars, fjVars, flVars, ebVars, lpVars, ruVars>>
notFlVars == <<storeVars, histVars, agentVars, jobVars, hitlVars, mgrVars, termVars, rcVars, thVars, fjVars, cpVars, ebVars, lpVars, ruVars>>
notEbVars == <<storeVars, histVars, agentVars, jobVars, hitlVars, mgrVars, termVars, rcVars, thVars, fjVars, cpVars, flVars, lpVars, ruVars>>
notLpVars == <<storeVars, histVars, agentVars, jobVars, hitlVars, mgrVars, termVars, rcVars, thVars, fjVars, cpVars, flVars, ebVars, ruVars>>
notRunsVars == <<storeVars, histVars, agentVars, jobVars, hitlVars, mgrVars, termVars, rcVars, thVars, fjVars, cpVars, flVars, ebVars, lpVars>>

None == "None"

Get(d, k) == IF k \in DOMAIN d THEN d[k] ELSE None

\* dict.get(k, default)
GetOr(d, k, default) == IF k \in DOMAIN d THEN d[k] ELSE default

\* d[k] = v on a dict (insert or overwrite)
Put(d, k, v) == [x \in (DOMAIN d) \cup {k} |-> IF x = k THEN v ELSE d[x]]

EmptyDict == [x \in {} |-> None]

RECURSIVE SelectSeqBy(_, _)
\* [e for e in s if e.type in types], order kept
SelectSeqBy(s, types) ==
    IF s = <<>> THEN <<>>
    ELSE IF Get(Head(s), "type") \in types
         THEN <<Head(s)>> \o SelectSeqBy(Tail(s), types)
         ELSE SelectSeqBy(Tail(s), types)

(***************************************************************************)
(* Bounds of the store model                                               *)
(***************************************************************************)
MaxWrites == 3
MaxInstances == 2

Namespaces == {"nsA", "nsB"}
AgentKeys == {"w1", "w2"}
KeyOrder == <<"w1", "w2">>
InMemNames == <<"inmemory_1", "inmemory_2", "inmemory_3", "inmemory_4">>
StoreMsgs == {[type |-> "observation", content |-> "m1"],
              [type |-> "task", content |-> "t1"]}
StoreUpdates == {[type |-> "global_observation", content |-> "g1"]}
Roles == {"user", "assistant", "tool"}

(***************************************************************************)
(* SharedStateStore                                                        *)
(***************************************************************************)

\* self._agent_feeds[namespace][agent_key].append(dict(msg)) on the two-level defaultdict
AppendAgentMsgShared(feeds, namespace, agent_key, msg) ==
    LET dom == (DOMAIN feeds) \cup {namespace}
    IN [ns \in dom |->
          LET old == GetOr(feeds, ns, EmptyDict)
          IN Put(old, agent_key, Append(GetOr(old, agent_key, <<>>), msg))]

append_agent_msg(feeds, namespace, agent_key, msg) ==
    LET old == GetOr(feeds, namespace, EmptyDict)
    IN Put(feeds, namespace,
           Put(old, agent_key, Append(GetOr(old, agent_key, <<>>), msg)))

\* self._global_feeds[namespace].append(dict(update))
append_global_update(feeds, namespace, update) ==
    Put(feeds, namespace, Append(GetOr(feeds, namespace, <<>>), update))

\* self._conversation_feeds[namespace].append({"role", "content", "timestamp"})
append_conversation_turn(feeds, namespace, role, content, now) ==
    Put(feeds, namespace,
        Append(GetOr(feeds, namespace, <<>>),
               [role |-> role, content |-> content, timestamp |-> now]))

list_conversation(namespace) == GetOr(conversation_feeds, namespace, <<>>)

list_global_updates(namespace) == GetOr(global_feeds, namespace, <<>>)

ListAgentMsgsOfAnyKey(namespace, agent_key) ==
    GetOr(GetOr(agent_feeds, namespace, EmptyDict), "w1", <<>>)
    \o GetOr(GetOr(agent_feeds, namespace, EmptyDict), "w2", <<>>)

list_agent_msgs(namespace, agent_key) ==
    GetOr(GetOr(agent_feeds, namespace, EmptyDict), agent_key, <<>>)

RECURSIVE list_team_msgs(_, _)
\* msgs.extend(list_agent_msgs(namespace, key)) for key in agent_keys
list_team_msgs(namespace, agent_keys) ==
    IF agent_keys = <<>> THEN <<>>
    ELSE list_agent_msgs(namespace, Head(agent_keys))
         \o list_team_msgs(namespace, Tail(agent_keys))

(***************************************************************************)
(* Memory views                                                            *)
(***************************************************************************)

RECURSIVE ConversationMsgs(_)
\* the conversation turns as user_message / assistant_message rows; other roles are dropped
ConversationMsgs(turns) ==
    IF turns = <<>> THEN <<>>
    ELSE LET t == Head(turns)
             rest == ConversationMsgs(Tail(turns))
         IN IF t.role = "user"
            THEN <<[type |-> "user_message", content |-> t.content]>> \o rest
            ELSE IF t.role = "assistant"
                 THEN <<[type |-> "assistant_message", content |-> t.content]>> \o rest
                 ELSE rest

\* InMemoryMemory.get_history
InMemoryGetHistory(namespace) == list_agent_msgs(namespace, "default")

SharedGetHistoryNewestFirst(namespace, agent_key) ==
    LET own == list_agent_msgs(namespace, agent_key)
    IN  ConversationMsgs(list_conversation(namespace))
        \o [i \in DOMAIN own |-> own[Len(own) + 1 - i]]
        \o list_global_updates(namespace)

\* SharedInMemoryMemory.get_history: conversation + own feed + global feed
SharedGetHistory(namespace, agent_key) ==
    ConversationMsgs(list_conversation(namespace))
    \o list_agent_msgs(namespace, agent_key)
    \o list_global_updates(namespace)

\* HierarchicalSharedMemory.get_history: own feed + subordinate feeds + global feed
HierarchicalGetHistory(namespace, agent_key, subordinates) ==
    list_agent_msgs(namespace, agent_key)
    \o list_team_msgs(namespace, subordinates)
    \o list_global_updates(namespace)

(***************************************************************************)
(* Store actions                                                           *)
(***************************************************************************)
\* an append as the log keeps it: the operation, its namespace, the agent key of an
\* add and the entry given
Written(op, namespace, agent_key, entry) ==
    [op |-> op, ns |-> namespace, key |-> agent_key, entry |-> entry]

\* SharedInMemoryMemory.add (namespace and agent_key are non-empty by __init__)
SharedAdd(namespace, agent_key, msg) ==
    /\ writes < MaxWrites
    /\ agent_feeds' = append_agent_msg(agent_feeds, namespace, agent_key, msg)
    /\ lastWriteNs' = namespace
    /\ write_log' = Append(write_log, Written("add", namespace, agent_key, msg))
    /\ writes' = writes + 1
    /\ UNCHANGED <<global_feeds, conversation_feeds, clock, inmem, uuid_next>>
    /\ UNCHANGED notStoreVars

\* SharedInMemoryMemory.add_global
SharedAddGlobal(namespace, update) ==
    /\ writes < MaxWrites
    /\ global_feeds' = append_global_update(global_feeds, namespace, update)
    /\ lastWriteNs' = namespace
    /\ write_log' = Append(write_log, Written("add_global", namespace, None, update))
    /\ writes' = writes + 1
    /\ UNCHANGED <<agent_feeds, conversation_feeds, clock, inmem, uuid_next>>
    /\ UNCHANGED notStoreVars

\* SharedStateStore.append_conversation_turn, called by the host
AppendConversationTurn(namespace, role, content) ==
    /\ writes < MaxWrites
    /\ clock' = clock + 1
    /\ conversation_feeds' =
           append_conversation_turn(conversation_feeds, namespace, role, content, clock')
    /\ lastWriteNs' = namespace
    /\ write_log' = Append(write_log,
           Written("turn", namespace, None,
                   [role |-> role, content |-> content, timestamp |-> clock']))
    /\ writes' = writes + 1
    /\ UNCHANGED <<global_feeds, agent_feeds, inmem, uuid_next>>
    /\ UNCHANGED notStoreVars

\* InMemoryMemory.__init__: a namespace of its own from uuid4
InMemoryNew ==
    /\ Len(inmem) < MaxInstances
    /\ uuid_next <= Len(InMemNames)
    /\ inmem' = Append(inmem, InMemNames[uuid_next])
    /\ uuid_next' = uuid_next + 1
    /\ lastWriteNs' = None
    /\ UNCHANGED <<global_feeds, agent_feeds, conversation_feeds, clock, writes, write_log>>
    /\ UNCHANGED notStoreVars

\* InMemoryMemory.add
InMemoryAdd(i, msg) ==
    /\ writes < MaxWrites
    /\ i \in DOMAIN inmem
    /\ agent_feeds' = append_agent_msg(agent_feeds, inmem[i], "default", msg)
    /\ lastWriteNs' = inmem[i]
    /\ write_log' = Append(write_log, Written("add", inmem[i], "default", msg))
    /\ writes' = writes + 1
    /\ UNCHANGED <<global_feeds, conversation_feeds, clock, inmem, uuid_next>>
    /\ UNCHANGED notStoreVars

StoreNext ==
    \/ \E ns \in Namespaces, key \in AgentKeys, m \in StoreMsgs : SharedAdd(ns, key, m)
    \/ \E ns \in Namespaces, u \in StoreUpdates : SharedAddGlobal(ns, u)
    \/ \E ns \in Namespaces, r \in Roles : AppendConversationTurn(ns, r, "hi")
    \/ InMemoryNew
    \/ \E i \in 1..MaxInstances, m \in StoreMsgs : InMemoryAdd(i, m)

(***************************************************************************)
(* Values: tool results, memory entries, strings                           *)
(***************************************************************************)
StrV(s) == [k |-> "str", s |-> s]
DictV(d) == [k |-> "dict", d |-> d]
NoneV == [k |-> "none"]

IsDict(v) == v.k = "dict"
IsStr(v) == v.k = "str"

\* the default indicators of DefaultCompletionDetector
indicators == {"completed", "success", "done", "finished", "task complete"}

\* The strings of the model that contain one of the indicators as a substring
\* (after lower()); every other string of the model contains none.
TextsWithIndicator == indicators \cup {"all done", "Task completed."}

\* any(ind in text.lower() for ind in self.indicators)
HasIndicator(text) == text \in TextsWithIndicator

RECURSIVE DictStrHasIndicator(_)
\* any(ind in str(d).lower() ...) for a dict: str(d) spells out every key and every
\* value; the values are strings or dicts of strings
DictStrHasIndicator(d) ==
    \E key \in DOMAIN d :
        \/ HasIndicator(key)
        \/ IF key \in {"payload", "response_validation"}
           THEN DictStrHasIndicator(d[key])
           ELSE HasIndicator(d[key])

\* any(ind in str(v).lower() ...) for a result or an entry's content
StrHasIndicator(v) ==
    CASE v.k = "str" -> HasIndicator(v.s)
      [] v.k = "dict" -> DictStrHasIndicator(v.d)
      [] OTHER -> FALSE

\* Python truthiness of a result
Truthy(v) ==
    CASE v.k = "str" -> v.s # ""
      [] v.k = "dict" -> DOMAIN v.d # {}
      [] v.k = "none" -> FALSE
      [] OTHER -> TRUE

\* results a tool can return
R_none == StrV("none")
R_done == StrV("all done")
R_echo == DictV([echoed |-> "hi"])
R_complete ==
    DictV([completed |-> "True", summary |-> "s", final_result |-> "r",
           operation |-> "display_message", payload |-> [message |-> "r"],
           human_readable_summary |-> "s"])
R_flagless == DictV([status |-> "noted"])
R_empty == DictV(EmptyDict)

(***************************************************************************)
(* constants.py                                                            *)
(***************************************************************************)
TASK == "task"
\* ACTION of constants.py (ACTION is a reserved word of TLA+)
ACTION_TYPE == "action"
OBSERVATION == "observation"
ERROR == "error"
FINAL == "final"
GLOBAL_OBSERVATION == "global_observation"
EXECUTION_TRACE_TYPES == <<TASK, ACTION_TYPE, OBSERVATION, ERROR>>

SeqRange(s) == {s[i] : i \in DOMAIN s}

(***************************************************************************)
(* policies/base.py, policies/history_filters.py                           *)
(***************************************************************************)

\* the Python index (0-based) of the first task entry, -1 if none
FindFirstTaskMarker(h) ==
    LET idxs == {i \in DOMAIN h : Get(h[i], "type") = TASK}
    IN IF idxs = {} THEN -1
       ELSE (CHOOSE i \in idxs : \A j \in idxs : i <= j) - 1

\* HistoryFilter._find_last_task_marker: the Python index (0-based) of the last
\* task entry, scanning from the end; -1 if there is none
find_last_task_marker(h) ==
    LET idxs == {i \in DOMAIN h : Get(h[i], "type") = TASK}
    IN IF idxs = {} THEN -1
       ELSE (CHOOSE i \in idxs : \A j \in idxs : i >= j) - 1

\* h[i:] for a Python index i >= 0
SliceFrom(h, i) == SubSeq(h, i + 1, Len(h))

\* h[-n:] for n > 0
LastN(h, n) == IF Len(h) <= n THEN h ELSE SubSeq(h, Len(h) - n + 1, Len(h))

\* WorkerHistoryFilter.filter_for_prompt
WorkerFilterForPrompt(h) ==
    LET last_task_idx == find_last_task_marker(h)
    IN IF last_task_idx < 0 THEN <<>>
       ELSE SelectSeqBy(SliceFrom(h, last_task_idx + 1),
                        SeqRange(EXECUTION_TRACE_TYPES \o <<GLOBAL_OBSERVATION>>))

(***************************************************************************)
(* policies/default.py: DefaultCompletionDetector                          *)
(***************************************************************************)
check_history_depth == 10
check_operation_types == {"display_message", "model_ops", "display_table"}

GetCurrentTurnHistoryAll(h) == h

\* DefaultCompletionDetector._get_current_turn_history
get_current_turn_history(h) ==
    IF h = <<>> THEN <<>>
    ELSE LET idxs == {i \in DOMAIN h : Get(h[i], "type") = TASK}
             last_task_idx == IF idxs = {} THEN -1
                              ELSE (CHOOSE i \in idxs : \A j \in idxs : i >= j) - 1
         IN IF last_task_idx < 0 THEN h ELSE SliceFrom(h, last_task_idx + 1)

\* the checks of is_complete on the result's own structure
ResultSignalsCompletion(result) ==
    /\ IsDict(result)
    /\ LET d == result.d
       IN \/ Get(d, "completed") = "True"
          \/ /\ "response_validation" \in DOMAIN d
             /\ Get(d["response_validation"], "complete") = "True"
          \/ /\ Get(d, "operation") \in check_operation_types
             /\ HasIndicator(GetOr(d, "human_readable_summary", ""))
          \/ \E f \in {"message", "summary", "final_result"} :
                 HasIndicator(GetOr(d, f, ""))

\* one entry of the current turn signals completion
EntrySignalsCompletion(entry) ==
    \/ Get(entry, "type") = "action" /\ Get(entry, "tool") = "complete_task"
    \/ Get(entry, "type") = "final" /\ HasIndicator(GetOr(entry, "content", ""))
    \/ /\ Get(entry, "type") = "observation"
       /\ "content" \in DOMAIN entry
       /\ \/ IsDict(entry.content) /\ Get(entry.content.d, "completed") = "True"
          \/ StrHasIndicator(entry.content)

\* DefaultCompletionDetector.is_complete
is_complete(result, h) ==
    \/ ResultSignalsCompletion(result)
    \/ LET recent == LastN(get_current_turn_history(h), check_history_depth)
       IN \E i \in DOMAIN recent : EntrySignalsCompletion(recent[i])

(***************************************************************************)
(* Histories handed to the filter and to the detector                      *)
(***************************************************************************)
MaxHistory == 4

\* the entries a feed can hold (the id is the entry's position, added on append)
HistoryEntries ==
    {[type |-> TASK, content |-> "t"],
     [type |-> ACTION_TYPE, tool |-> "complete_task"],
     [type |-> ACTION_TYPE, tool |-> "search"],
     [type |-> OBSERVATION, content |-> R_none],
     [type |-> OBSERVATION, content |-> R_complete],
     [type |-> FINAL, content |-> "all done"],
     [type |-> ERROR, content |-> "boom"],
     [type |-> GLOBAL_OBSERVATION, content |-> R_echo]}

\* results that carry no completion signal of their own
PlainResults == {R_none, R_echo, R_empty, NoneV}
ProbeResults == PlainResults \cup {R_complete}

\* memory.add(entry): the feed grows by one entry
HistoryAdd(e) ==
    /\ hphase = "build"
    /\ Len(history) < MaxHistory
    /\ history' = Append(history, [x \in (DOMAIN e) \cup {"id"} |->
                                       IF x = "id" THEN Len(history) + 1 ELSE e[x]])
    /\ UNCHANGED <<hphase, filtered, cd_result, cd_answer>>
    /\ UNCHANGED notHistVars

\* a planner builds a worker prompt from the feed
ApplyWorkerFilter ==
    /\ hphase = "build"
    /\ filtered' = WorkerFilterForPrompt(history)
    /\ hphase' = "filtered"
    /\ UNCHANGED <<history, cd_result, cd_answer>>
    /\ UNCHANGED notHistVars

\* the agent asks the completion detector about a result
ApplyIsComplete(r) ==
    /\ hphase = "build"
    /\ cd_result' = r
    /\ cd_answer' = is_complete(r, history)
    /\ hphase' = "checked"
    /\ UNCHANGED <<history, filtered>>
    /\ UNCHANGED notHistVars

HistNext ==
    \/ \E e \in HistoryEntries : HistoryAdd(e)
    \/ ApplyWorkerFilter
    \/ \E r \in ProbeResults : ApplyIsComplete(r)

(***************************************************************************)
(* Tool arguments, canonical JSON and signatures                           *)
(*                                                                         *)
(* A Python dict of arguments is the sequence of its (key, value) pairs in *)
(* insertion order, so that two dicts with the same items in another order *)
(* are different values with the same canonical JSON.                      *)
(***************************************************************************)
A_none == <<>>
A_x == << <<"q", "x">> >>
A_n == << <<"n", "1">> >>
A_xn == << <<"q", "x">>, <<"n", "1">> >>
A_nx == << <<"n", "1">>, <<"q", "x">> >>

\* the argument keys of the model, in the order sort_keys puts them
SortedKeys == <<"n", "q">>

RECURSIVE SortByKeys(_, _)
SortByKeys(args, keys) ==
    IF keys = <<>> THEN <<>>
    ELSE SelectSeq(args, LAMBDA kv : kv[1] = Head(keys)) \o SortByKeys(args, Tail(keys))

\* json.dumps(args, sort_keys=True, default=str): the pairs ordered by key
json_dumps_sorted(args) == SortByKeys(args, SortedKeys)

\* f"{tool_name}:{json.dumps(args, sort_keys=True, default=str)}"
Signature(tool_name, args) == <<tool_name, json_dumps_sorted(args)>>

\* make_hashable on a dict of arguments: tuple(sorted(items))
make_hashable(args) == SortByKeys(args, SortedKeys)

\* the action_signature of a batch: one (tool_name, make_hashable(tool_args)) per action
action_signature(batch) ==
    [i \in DOMAIN batch |-> <<batch[i].tool_name, make_hashable(batch[i].tool_args)>>]

(***************************************************************************)
(* The tool registry of the agent, argument validation, PolicyEngine       *)
(***************************************************************************)
\* self.tools: the registered tools ("ghost" is a tool name no tool is registered under)
Tools == {"search", "complete_task", "add_column", "restricted"}

\* the tools that declare an args_schema, with the fields the schema requires
SchemaFields == [search |-> {"q"}]

ArgKeys(args) == {args[i][1] : i \in DOMAIN args}

\* tool.args_schema.model_validate(kwargs) succeeds: every required field is present
ModelValidates(tool, args) ==
    tool \in DOMAIN SchemaFields => SchemaFields[tool] \subseteq ArgKeys(args)

\* model.model_dump(): the declared fields only (pydantic ignores extra keys)
ModelDump(tool, args) ==
    IF tool \in DOMAIN SchemaFields
    THEN SelectSeq(args, LAMBDA kv : kv[1] \in SchemaFields[tool])
    ELSE args

\* the tools a deny rule of the loaded policy files matches
DeniedTools == {"restricted"}

\* PolicyEngine.evaluate: allowed unless a deny rule matches
PolicyAllows(tool_name, kwargs) == tool_name \notin DeniedTools

(***************************************************************************)
(* state/job_store.py: the executed_actions list of each job               *)
(***************************************************************************)
JobIds == {"job1", "job2"}

SeqHas(s, x) == \E i \in DOMAIN s : s[i] = x

\* FileJobStore.add_executed_action: append the signature unless already listed
add_executed_action(store, job_id, signature) ==
    LET sigs == GetOr(store, job_id, <<>>)
    IN Put(store, job_id, IF SeqHas(sigs, signature) THEN sigs ELSE Append(sigs, signature))

\* FileJobStore.has_executed_action
has_executed_action(store, job_id, signature) ==
    job_id \in DOMAIN store /\ SeqHas(store[job_id], signature)

(***************************************************************************)
(* Relative imports                                                        *)
(***************************************************************************)
\* the package of policies/default.py and of core/agent.py
PoliciesPackage == <<"agent_framework", "policies">>
CorePackage == <<"agent_framework", "core">>

\* the number of leading dots of "from ...state.job_store import get_job_store"
\* in policies/default.py and of "from ..state.job_store import get_job_store"
\* in core/agent.py
HitlImportLevel == 3
AgentImportLevel == 2

\* A relative import of the given level climbs level - 1 packages up from the
\* importing module's package; it raises ImportError ("attempted relative import
\* beyond top-level package") when that leaves the top-level package.
RelativeImportResolves(package, level) == level - 1 < Len(package)

(***************************************************************************)
(* policies/default.py: DefaultHITLPolicy                                  *)
(***************************************************************************)
write_tools ==
    {"add_table", "add_column", "add_relationship", "update_relationship",
     "rename_column", "add_measure", "remove_column", "remove_relationship",
     "remove_measure", "update_measure", "update_partition_source", "update_sql_query"}

\* the branch "if job_id:" of requires_approval: the import runs inside the try,
\* and "except Exception: pass" swallows its ImportError
Bypass(hitl, job_id, store, tool_name, tool_args) ==
    /\ job_id # None
    /\ RelativeImportResolves(PoliciesPackage, HitlImportLevel)
    /\ has_executed_action(store, job_id, Signature(tool_name, tool_args))

\* DefaultHITLPolicy.requires_approval(tool_name, tool_args, context)
requires_approval(hitl, tool_name, tool_args, approvals, job_id, store) ==
    IF ~hitl.enabled THEN FALSE
    ELSE IF tool_name \in approvals THEN FALSE
    ELSE IF Bypass(hitl, job_id, store, tool_name, tool_args) THEN FALSE
    ELSE IF hitl.scope = "all" THEN TRUE
    ELSE IF hitl.scope = "writes" THEN tool_name \in write_tools
    ELSE FALSE

\* DefaultHITLPolicy.create_approval_request
create_approval_request(tool_name, tool_args) ==
    [operation |-> "await_approval",
     payload |-> [await_approval |-> "True", tool |-> tool_name, args |-> tool_args],
     human_readable_summary |-> "Approval required"]

(***************************************************************************)
(* str() and json.loads on the values of the model                         *)
(***************************************************************************)
\* str(v): a string stays itself; the text of any other value is written Repr(v)
Repr(v) == [k |-> "str", repr |-> v]

PyStr(v) == IF v.k = "str" THEN v ELSE Repr(v)

\* a tool result that is the text of a JSON document
R_json == StrV("{\"response_validation\": {\"complete\": true}}")

\* json.loads(text) when it succeeds, else the text itself: of the texts of the
\* model only "{}" (the text of the empty dict) and R_json are JSON documents
JsonLoadsOrSelf(text) ==
    IF text = Repr(R_empty) THEN R_empty
    ELSE IF text = R_json THEN DictV([response_validation |-> [complete |-> "True"]])
    ELSE text

(***************************************************************************)
(* policies/default.py: DefaultLoopPreventionPolicy                        *)
(***************************************************************************)
action_window == 5
observation_window == 5
repetition_threshold == 3

\* a deque without maxlen
DequeWithoutMaxlen(dq, x, n) == Append(dq, x)

\* deque(maxlen=n).append(x)
DequeAppend(dq, x, n) == LastN(Append(dq, x), n)

AllSame(s) == \A i, j \in DOMAIN s : s[i] = s[j]

\* the completion detector asked about an observation text and an empty history
ObservationLooksComplete(obs) == is_complete(JsonLoadsOrSelf(obs), <<>>)

RepetitionWithinOneMore(ah, oh, threshold) ==
    /\ Len(ah) >= threshold + 1
    /\ AllSame(LastN(ah, threshold + 1))
    /\ Len(oh) >= threshold + 1
    /\ AllSame(LastN(oh, threshold + 1))

\* the repetition test of detect_stagnation over the last threshold entries
RepetitionWithin(ah, oh, threshold) ==
    /\ Len(ah) >= threshold
    /\ AllSame(LastN(ah, threshold))
    /\ Len(oh) >= threshold
    /\ AllSame(LastN(oh, threshold))

\* the two reasons detect_stagnation gives
CompleteButContinues == "Task appears complete but agent continues execution"
SamePatternRepeated == "Stagnation: Same action pattern repeated"

\* self.repetition_threshold: the constructor's argument, 3 when it is not given
threshold_of(lp) == IF "repetition_threshold" \in DOMAIN lp THEN lp.repetition_threshold ELSE repetition_threshold

\* DefaultLoopPreventionPolicy.detect_stagnation: the reason, or None
detect_stagnation(lp, ah, oh) ==
    IF ~lp.enabled THEN None
    ELSE IF lp.check_completion_in_loop /\ oh # <<>>
            /\ ObservationLooksComplete(oh[Len(oh)])
         THEN CompleteButContinues
         ELSE IF RepetitionWithin(ah, oh, threshold_of(lp))
              THEN SamePatternRepeated
              ELSE None

(***************************************************************************)
(* policies/default.py: DefaultTerminationPolicy, DefaultCheckpointPolicy  *)
(***************************************************************************)
IsFinalResponse(plan_outcome) == "operation" \in DOMAIN plan_outcome

\* DefaultTerminationPolicy.should_terminate for a plan outcome that is a
\* FinalResponse or a list of actions (max_iterations = 0 stands for None)
ShouldTerminateWithoutMaxIterations(term, iteration, plan_outcome) ==
    \/ IsFinalResponse(plan_outcome)
    \/ /\ term.require_terminal_tool
       /\ ~IsFinalResponse(plan_outcome)
       /\ \E i \in DOMAIN plan_outcome.actions :
              plan_outcome.actions[i].tool_name \in term.terminal_tools
should_terminate(term, iteration, plan_outcome) ==
    \/ term.max_iterations # 0 /\ iteration > term.max_iterations
    \/ IsFinalResponse(plan_outcome)
    \/ /\ term.require_terminal_tool
       /\ ~IsFinalResponse(plan_outcome)
       /\ \E i \in DOMAIN plan_outcome.actions :
              plan_outcome.actions[i].tool_name \in term.terminal_tools

\* DefaultCheckpointPolicy.should_checkpoint
should_checkpoint(cp, result, iteration, last_tool) ==
    /\ cp.enabled
    /\ \/ cp.checkpoint_after_iterations # 0 /\ iteration >= cp.checkpoint_after_iterations
       \/ IsDict(result) /\ Get(result.d, "operation") \in cp.checkpoint_on_operations
       \/ last_tool # None /\ last_tool \in cp.checkpoint_on_tools

\* DefaultCheckpointPolicy.create_checkpoint_response
create_checkpoint_response(result) ==
    [operation |-> IF IsDict(result) THEN GetOr(result.d, "operation", "display_message")
                   ELSE "display_message",
     payload |-> [checkpoint |-> "True", message |-> "Intermediate result"],
     human_readable_summary |-> "Intermediate checkpoint"]

(***************************************************************************)
(* core/event_payloads.py                                                  *)
(***************************************************************************)
\* _infer_status on a FinalResponse dump
infer_status(result) ==
    IF result.operation = "await_approval" THEN "pending"
    ELSE IF Get(result.payload, "error") = "True" \/ Get(result.payload, "success") = "False"
         THEN "error"
         ELSE "success"

\* build_agent_end_event: the status given, else the inferred one
agent_end_event(result, status) ==
    [name |-> "agent_end", status |-> IF status # None THEN status ELSE infer_status(result)]

(***************************************************************************)
(* Agent (core/agent.py): configurations, planner outcomes, tool outcomes  *)
(***************************************************************************)
MaxIter == 3

NoHitl == [enabled |-> FALSE, scope |-> "writes"]
NoCheckpoint ==
    [enabled |-> FALSE, checkpoint_after_iterations |-> 0,
     checkpoint_on_operations |-> {}, checkpoint_on_tools |-> {}]
LoopPrevention == [enabled |-> TRUE, check_completion_in_loop |-> TRUE]
Termination(n) == [max_iterations |-> n, require_terminal_tool |-> FALSE, terminal_tools |-> {}]

DefaultConfig ==
    [hitl |-> NoHitl, approvals |-> {}, job_id |-> None,
     term |-> Termination(0), cp |-> NoCheckpoint, lp |-> LoopPrevention]

\* the policies and the request context an agent runs under
AgentConfigs ==
    {DefaultConfig,
     [DefaultConfig EXCEPT !.term = Termination(1)],
     [hitl |-> [enabled |-> TRUE, scope |-> "writes"], approvals |-> {}, job_id |-> "job1",
      term |-> Termination(0), cp |-> NoCheckpoint, lp |-> LoopPrevention],
     [hitl |-> [enabled |-> TRUE, scope |-> "all"], approvals |-> {"search"}, job_id |-> "job1",
      term |-> Termination(2), cp |-> NoCheckpoint, lp |-> LoopPrevention],
     [hitl |-> NoHitl, approvals |-> {}, job_id |-> None,
      term |-> Termination(0),
      cp |-> [enabled |-> TRUE, checkpoint_after_iterations |-> 0,
              checkpoint_on_operations |-> {}, checkpoint_on_tools |-> {"add_column"}],
      lp |-> LoopPrevention]}

Act(tool_name, tool_args) == [tool_name |-> tool_name, tool_args |-> tool_args]

act_search == Act("search", A_x)
act_search_bad == Act("search", A_n)
act_complete == Act("complete_task", A_none)
act_write == Act("add_column", A_x)
act_ghost == Act("ghost", A_x)
act_restricted == Act("restricted", A_x)

\* the batches a planner returns
Batches ==
    {<<act_search>>, <<act_search_bad>>, <<act_complete>>, <<act_write>>,
     <<act_ghost>>, <<act_restricted>>,
     <<act_complete, act_search>>, <<act_search, act_complete>>,
     <<act_search, act_write>>, <<act_search, act_ghost>>,
     <<act_ghost, act_ghost>>, <<act_restricted, act_search_bad>>}

\* a FinalResponse of the planner
FinalAnswer ==
    [operation |-> "display_message", payload |-> [message |-> "answer"],
     human_readable_summary |-> "answer"]

PlanOutcomes == {FinalAnswer} \cup {[actions |-> b] : b \in Batches}

\* a script step with no tool_name
step_empty == Act(None, A_none)

\* the script argument of run (<<>>: no script, the planner drives the run)
Scripts ==
    {<<>>, <<act_search>>, <<act_search, act_write>>, <<act_ghost, act_search>>,
     <<act_restricted>>, <<step_empty>>, <<act_complete, act_search>>,
     <<act_search, act_search_bad, act_write>>}

R_await == DictV([await_approval |-> "True", message |-> "needs approval"])

\* tool.execute raised; tool.execute was not reached
Raise == [k |-> "raise"]
Skip == [k |-> "skip"]

\* what tool.execute(**kwargs) can do: return one of these results, or raise
ToolOutcomes(tool) ==
    CASE tool = "search" -> {R_none, R_done, R_json, Raise}
      [] tool = "complete_task" -> {R_complete, R_flagless, R_empty, Raise}
      [] tool = "add_column" -> {R_echo, R_await}
      [] OTHER -> {R_none}

\* the exception objects _execute_actions returns in place of a result
Exc(msg) == [k |-> "exc", msg |-> msg]

IsException(r) == r.k = "exc"

\* the error_payload dict returned when tool.execute raised
error_payload(tool) ==
    DictV([success |-> "False", error |-> "True", error_message |-> "boom",
           error_type |-> "RuntimeError", tool |-> tool, message |-> "ERROR: boom"])

\* the text f"ERROR: Tool '{tool_name}' failed!\nError: {error_message}"
error_obs(tool) == [k |-> "str", s |-> "ERROR: Tool failed", tool |-> tool]

\* result.get("error") is truthy
HasError(r) == IsDict(r) /\ Get(r.d, "error") \notin {None, "False", ""}

\* the test before recording the signature: an explicit error structure
IsErrorResult(r) ==
    IsDict(r) /\ (\/ Get(r.d, "error") \notin {None, "False", ""}
                  \/ Get(r.d, "success") = "False"
                  \/ Get(r.d, "error_message") \notin {None, ""})

\* the action reaches tool.execute: registered, valid arguments, not denied
Executes(a) ==
    /\ a.tool_name \in Tools
    /\ ModelValidates(a.tool_name, a.tool_args)
    /\ PolicyAllows(a.tool_name, ModelDump(a.tool_name, a.tool_args))

\* one outcome per action of the batch (Skip where tool.execute is not reached)
OutcomeSeqs(batch) ==
    {outs \in [DOMAIN batch -> {R_none, R_done, R_json, R_complete, R_flagless, R_empty,
                                R_echo, R_await, Raise, Skip}] :
        \A i \in DOMAIN batch :
            IF Executes(batch[i]) THEN outs[i] \in ToolOutcomes(batch[i].tool_name)
            ELSE outs[i] = Skip}

Ev(name, it) == [name |-> name, it |-> it]

\* build_error_event(message, details): details names the tool for a tool that
\* raised and is None for the error event of a whole batch
ErrorEv(it, details) == [name |-> "error", it |-> it, details |-> details]

(***************************************************************************)
(* Agent._execute_actions                                                  *)
(***************************************************************************)
\* The outcome of one action of the batch: its result, the events it publishes,
\* whether tool.execute ran, and the signature recorded in the job store.
\* (The tools of a batch run concurrently; the model lists the events of a
\* batch in the order of the actions.)
ExecuteTool(a, outcome, job_id, it) ==
    LET tool == a.tool_name
        kwargs == ModelDump(tool, a.tool_args)
    IN IF tool \notin Tools
       THEN [result |-> Exc("Tool not found"), evs |-> <<>>, ran |-> FALSE, sig |-> <<>>]
       ELSE IF ~ModelValidates(tool, a.tool_args)
       THEN [result |-> Exc("Validation failed"), evs |-> <<>>, ran |-> FALSE, sig |-> <<>>]
       ELSE IF ~PolicyAllows(tool, kwargs)
       THEN [result |-> Exc("Policy denied"),
             evs |-> <<Ev("worker_tool_call", it), Ev("policy_denied", it),
                       Ev("worker_tool_result", it)>>,
             ran |-> FALSE, sig |-> <<>>]
       ELSE IF outcome = Raise
       THEN [result |-> error_payload(tool),
             evs |-> <<Ev("worker_tool_call", it), ErrorEv(it, tool),
                       Ev("worker_tool_result", it)>>,
             ran |-> TRUE, sig |-> <<>>]
       ELSE [result |-> outcome,
             evs |-> <<Ev("worker_tool_call", it), Ev("worker_tool_result", it),
                       Ev("action_executed", it)>>,
             ran |-> TRUE,
             sig |-> IF /\ ~IsErrorResult(outcome)
                        /\ job_id # None
                        /\ RelativeImportResolves(CorePackage, AgentImportLevel)
                     THEN <<Signature(tool, kwargs)>> ELSE <<>>]

\* the orders in which the tool calls of a batch may complete
CompletionOrders(batch) ==
    {order \in [DOMAIN batch -> DOMAIN batch] :
        \A i, j \in DOMAIN batch : order[i] = order[j] => i = j}

GatherAsCompleted(order, done) == done

\* asyncio.gather(*[execute_tool(item, idx) ...], return_exceptions=True): done[k] is
\* what the k-th call to complete, that of action order[k], returned; the list of
\* results follows the order of the awaitables
gather_results(order, done) ==
    [i \in DOMAIN order |-> done[CHOOSE k \in DOMAIN order : order[k] = i]]

ExecuteActionsFailFast(batch, outs, order, job_id, it, acc) ==
    LET failed == {i \in DOMAIN batch :
                      \/ IsException(ExecuteTool(batch[i], outs[i], job_id, it).result)
                      \/ outs[i] = Raise}
        upto == IF failed = {} THEN Len(batch)
                ELSE CHOOSE k \in DOMAIN order :
                         /\ order[k] \in failed
                         /\ \A j \in 1..(k - 1) : order[j] \notin failed
        completed == SelectSeq([k \in 1..upto |-> order[k]],
                               LAMBDA i : ExecuteTool(batch[i], outs[i], job_id, it).ran)
    IN  [done |-> [k \in 1..upto |->
                      ExecuteTool(batch[order[k]], outs[order[k]], job_id, it).result],
         results |-> [i \in DOMAIN batch |->
                         IF \E k \in 1..upto : order[k] = i
                         THEN ExecuteTool(batch[i], outs[i], job_id, it).result
                         ELSE Exc("cancelled")],
         evs |-> acc.evs,
         ran |-> [k \in DOMAIN completed |-> batch[completed[k]].tool_name],
         store |-> acc.store]

RECURSIVE ExecuteActions(_, _, _, _, _, _)
\* _execute_actions: the tool calls of the batch run concurrently and complete in the
\* order given; acc collects, as the calls complete, what they returned, the events,
\* the tools run and the job store
ExecuteActions(batch, outs, order, job_id, it, acc) ==
    LET k == Len(acc.done) + 1
        i == order[k]
    IN IF k > Len(batch) THEN acc @@ [results |-> gather_results(order, acc.done)]
       ELSE LET r == ExecuteTool(batch[i], outs[i], job_id, it)
            IN ExecuteActions(batch, outs, order, job_id, it,
                   [done |-> Append(acc.done, r.result),
                    evs |-> acc.evs \o r.evs,
                    ran |-> IF r.ran THEN Append(acc.ran, batch[i].tool_name) ELSE acc.ran,
                    store |-> IF r.sig = <<>> THEN acc.store
                              ELSE add_executed_action(acc.store, job_id, r.sig[1])])

(***************************************************************************)
(* The responses of Agent.run                                              *)
(***************************************************************************)
NoResult == [operation |-> "none"]

\* FinalResponse(...).model_dump()
FinalResponse(operation, payload, summary) ==
    [operation |-> operation, payload |-> payload, human_readable_summary |-> summary]

\* the end state of a run: memory, events and the returned response
Ended(mem, evs, res, status) ==
    [pc |-> "done", memory |-> mem, events |-> Append(evs, agent_end_event(res, status)),
     result |-> res]

\* _handle_final_response: a final entry, then agent_end with the inferred status
handle_final_response(mem, evs, fr) ==
    Ended(Append(mem, [type |-> FINAL, content |-> fr.human_readable_summary]), evs, fr, None)

\* _create_completion_response(message, result)
create_completion_response(mem, evs, message, res) ==
    handle_final_response(mem, evs,
        IF IsDict(res) /\ Truthy(res)
        THEN FinalResponse(GetOr(res.d, "operation", "display_message"),
                           GetOr(res.d, "payload", [message |-> message]),
                           GetOr(res.d, "human_readable_summary", message))
        ELSE FinalResponse("display_message", [message |-> message], message))

\* _create_error_response(message, stagnation)
create_error_response(mem, evs, message, stagnation) ==
    Ended(Append(mem, [type |-> ERROR, content |-> message]), evs,
          FinalResponse("display_message",
                        [message |-> message, error |-> "True",
                         stagnation |-> IF stagnation THEN "True" ELSE "False"],
                        message),
          "error")

\* _handle_approval_request for a request that is a dict
handle_approval_request(mem, evs, req) ==
    Ended(mem, evs,
          IF "operation" \in DOMAIN req
          THEN FinalResponse(req.operation, GetOr(req, "payload", req),
                             GetOr(req, "human_readable_summary", "Awaiting approval"))
          ELSE FinalResponse("await_approval", req, GetOr(req, "message", "Awaiting approval")),
          "pending")

\* _handle_checkpoint
handle_checkpoint(mem, evs, resp) == Ended(mem, evs, resp, None)

HandleExecutionErrorsSilently(mem, evs, it) ==
    create_error_response(
        Append(mem, [type |-> ERROR, content |-> "Errors during execution"]),
        evs, "Errors during execution", FALSE)

\* _handle_execution_errors: one error event for the batch and an error entry,
\* then _create_error_response
HandleExecutionErrorsRecordsBatch(mem, evs, it) ==
    create_error_response(
        Append(mem, [type |-> ACTION_TYPE, tool |-> "search", args |-> <<>>]),
        Append(evs, ErrorEv(it, None)),
        "Errors during execution", FALSE)
handle_execution_errors(mem, evs, it) ==
    create_error_response(
        Append(mem, [type |-> ERROR, content |-> "Errors during execution"]),
        Append(evs, ErrorEv(it, None)),
        "Errors during execution", FALSE)

(***************************************************************************)
(* Agent.run: the plan/act/observe loop                                    *)
(***************************************************************************)
LastOfType(mem, type) ==
    LET idxs == {i \in DOMAIN mem : Get(mem[i], "type") = type}
    IN IF idxs = {} THEN <<>> ELSE <<mem[CHOOSE i \in idxs : \A j \in idxs : i >= j]>>

\* the check at the top of an iteration: the last action entry is complete_task and
\* the last observation is a dict with completed True, operation and payload
CompleteTaskObserved(mem) ==
    LET la == LastOfType(mem, ACTION_TYPE)
        lo == LastOfType(mem, OBSERVATION)
    IN /\ la # <<>> /\ Get(la[1], "tool") = "complete_task"
       /\ lo # <<>> /\ IsDict(lo[1].content)
       /\ Get(lo[1].content.d, "completed") = "True"
       /\ {"operation", "payload"} \subseteq DOMAIN lo[1].content.d

\* the FinalResponse built from a complete_task result or observation
CompletionFinalResponse(d) ==
    IF {"operation", "payload"} \subseteq DOMAIN d
    THEN FinalResponse(d.operation, d.payload,
                       IF GetOr(d, "human_readable_summary", "") # ""
                       THEN d.human_readable_summary
                       ELSE GetOr(d, "summary", "Task completed."))
    ELSE FinalResponse("display_message", [message |-> "converted"], "converted")

\* the HITL gate: the first action of the batch the policy requires approval for
HitlGateFirstOnly(c, batch, store) ==
    IF requires_approval(c.hitl, batch[1].tool_name, batch[1].tool_args,
                         c.approvals, c.job_id, store)
    THEN <<batch[1]>> ELSE <<>>

HitlGate(c, batch, store) ==
    LET need == {i \in DOMAIN batch :
                    requires_approval(c.hitl, batch[i].tool_name, batch[i].tool_args,
                                      c.approvals, c.job_id, store)}
    IN IF need = {} THEN <<>>
       ELSE <<batch[CHOOSE i \in need : \A j \in need : i <= j]>>

PlannedEvents(batch, it) == [i \in DOMAIN batch |-> Ev("action_planned", it)]

\* One iteration of the loop up to the call of _execute_actions.
PlanStep(c, mem, evs, ah, oh, store, it, plan_outcome) ==
    LET stay == [action_history |-> ah, actions |-> <<>>]
    IN IF it > 1 /\ mem # <<>> /\ CompleteTaskObserved(mem)
       THEN handle_final_response(mem, evs,
                CompletionFinalResponse(LastOfType(mem, OBSERVATION)[1].content.d)) @@ stay
       ELSE IF should_terminate(c.term, it, plan_outcome)
       THEN IF IsFinalResponse(plan_outcome)
            THEN handle_final_response(mem, evs, plan_outcome) @@ stay
            ELSE create_completion_response(mem, evs,
                     "Task completed (detected by termination policy).", NoneV) @@ stay
       ELSE LET batch == plan_outcome.actions
            IN IF /\ \E i \in DOMAIN batch : batch[i].tool_name = "complete_task"
                  /\ \E j \in DOMAIN mem : /\ Get(mem[j], "type") = ACTION_TYPE
                                           /\ Get(mem[j], "tool") = "complete_task"
               THEN create_completion_response(mem, evs,
                        "Task already completed. Stopping execution.", NoneV) @@ stay
               ELSE IF detect_stagnation(c.lp, ah, oh) # None
               THEN create_error_response(mem, evs, detect_stagnation(c.lp, ah, oh), TRUE)
                    @@ stay
               ELSE LET ah1 == DequeAppend(ah, action_signature(batch), action_window)
                        evs1 == evs \o PlannedEvents(batch, it)
                        gate == HitlGate(c, batch, store)
                    IN IF gate # <<>>
                       THEN handle_approval_request(mem, evs1,
                                create_approval_request(gate[1].tool_name, gate[1].tool_args))
                            @@ [action_history |-> ah1, actions |-> batch]
                       ELSE [pc |-> "execute", memory |-> mem, events |-> evs1,
                             result |-> NoResult, action_history |-> ah1, actions |-> batch]

ObservationEntriesDropErrors(a, r) ==
    IF HasError(r) THEN <<>> ELSE <<[type |-> OBSERVATION, content |-> r]>>

\* the observation entry of an action: the error text for an error result, else
\* the result itself
ObservationEntries(a, r) ==
    <<[type |-> OBSERVATION,
       content |-> IF HasError(r) THEN error_obs(a.tool_name) ELSE r]>>

RECURSIVE RecordResults(_, _, _, _, _)
\* the loop "for action, result in zip(actions, results)": an action entry, then
\* its observation; a complete_task result with completed True ends the loop
RecordResults(batch, results, i, mem, oh) ==
    IF i > Len(batch) THEN [memory |-> mem, oh |-> oh, final |-> <<>>]
    ELSE LET a == batch[i]
             r == results[i]
             obs == IF HasError(r) THEN error_obs(a.tool_name) ELSE r
             mem1 == Append(mem, [type |-> ACTION_TYPE, tool |-> a.tool_name,
                                  args |-> a.tool_args])
                     \o ObservationEntries(a, r)
             oh1 == DequeAppend(oh, PyStr(obs), observation_window)
         IN IF a.tool_name = "complete_task" /\ IsDict(r) /\ Get(r.d, "completed") = "True"
            THEN [memory |-> mem1, oh |-> oh1, final |-> <<CompletionFinalResponse(r.d)>>]
            ELSE RecordResults(batch, results, i + 1, mem1, oh1)

\* One iteration of the loop from the return of _execute_actions on.
ObserveStep(c, mem, evs, ah, oh, it, batch, results) ==
    IF \E i \in DOMAIN results : IsException(results[i])
    THEN handle_execution_errors(mem, evs, it) @@ [oh |-> oh, recorded |-> FALSE]
    ELSE LET rec == RecordResults(batch, results, 1, mem, oh)
             last_result == results[Len(results)]
             last_tool == batch[Len(batch)].tool_name
             awaiting == {i \in DOMAIN results :
                             IsDict(results[i])
                             /\ Get(results[i].d, "await_approval") \notin {None, "False", ""}}
             out == [oh |-> rec.oh, recorded |-> TRUE]
         IN IF rec.final # <<>>
            THEN handle_final_response(rec.memory, evs, rec.final[1]) @@ out
            ELSE IF Truthy(last_result) /\ is_complete(last_result, rec.memory)
            THEN create_completion_response(rec.memory, evs,
                     "Task completed successfully.", last_result) @@ out
            ELSE IF detect_stagnation(c.lp, ah, rec.oh) # None
            THEN create_error_response(rec.memory, evs,
                     detect_stagnation(c.lp, ah, rec.oh), TRUE) @@ out
            ELSE IF /\ Truthy(last_result)
                    /\ should_checkpoint(c.cp, last_result, it, last_tool)
            THEN handle_checkpoint(rec.memory, evs, create_checkpoint_response(last_result))
                 @@ out
            ELSE IF awaiting # {}
            THEN handle_approval_request(rec.memory, evs,
                     results[CHOOSE i \in awaiting : \A j \in awaiting : i <= j].d) @@ out
            ELSE [pc |-> "plan", memory |-> rec.memory, events |-> evs,
                  result |-> NoResult] @@ out

(***************************************************************************)
(* Agent.run: actions                                                      *)
(***************************************************************************)
\* run(task, script=...) up to the loop or to _run_script_mode: agent_start, the
\* task entry and, for a script, the script_instruction entry
AgentRunStart(c, s) ==
    /\ a_pc = "idle"
    /\ cfg' = c
    /\ script' = s
    /\ script_idx' = 0
    /\ step_records' = <<>>
    /\ events' = <<Ev("agent_start", 0)>>
    /\ memory' = <<[type |-> TASK, content |-> "t"]>>
                 \o (IF s # <<>> THEN <<[type |-> "script_instruction", content |-> "steps"]>>
                     ELSE <<>>)
    /\ a_pc' = IF s # <<>> THEN "script" ELSE "plan"
    /\ UNCHANGED <<iteration_count, action_history, observation_history, actions,
                   exec_log, iter_log, run_result, executed_actions>>
    /\ UNCHANGED hitlVars
    /\ UNCHANGED notAgentVars

\* the first half of an iteration: the planner's answer and every check made
\* before _execute_actions is awaited
AgentPlan(plan_outcome) ==
    /\ a_pc = "plan"
    /\ iteration_count < MaxIter
    /\ LET it == iteration_count + 1
           out == PlanStep(cfg, memory, events, action_history, observation_history,
                           executed_actions, it, plan_outcome)
       IN /\ iteration_count' = it
          /\ a_pc' = out.pc
          /\ memory' = out.memory
          /\ events' = out.events
          /\ run_result' = out.result
          /\ action_history' = out.action_history
          /\ actions' = out.actions
    /\ UNCHANGED <<cfg, script, script_idx, step_records, observation_history, exec_log,
                   iter_log, executed_actions>>
    /\ UNCHANGED hitlVars
    /\ UNCHANGED notAgentVars

\* the observation texts of an iteration, one per action
ObsTexts(batch, results) ==
    [i \in DOMAIN batch |->
        PyStr(IF HasError(results[i]) THEN error_obs(batch[i].tool_name) ELSE results[i])]

\* the second half of an iteration: _execute_actions and everything after it
AgentExecute ==
    /\ a_pc = "execute"
    /\ \E outs \in OutcomeSeqs(actions), order \in CompletionOrders(actions) :
       LET it == iteration_count
           ex == ExecuteActions(actions, outs, order, cfg.job_id, it,
                     [done |-> <<>>, evs |-> <<>>, ran |-> <<>>,
                      store |-> executed_actions])
           out == ObserveStep(cfg, memory, events \o ex.evs, action_history,
                              observation_history, it, actions, ex.results)
       IN /\ a_pc' = out.pc
          /\ memory' = out.memory
          /\ events' = out.events
          /\ run_result' = out.result
          /\ observation_history' = out.oh
          /\ exec_log' = exec_log \o ex.ran
          /\ executed_actions' = ex.store
          /\ iter_log' = Append(iter_log,
                 [it |-> it, recorded |-> out.recorded, batch |-> actions,
                  obs |-> IF out.recorded THEN ObsTexts(actions, ex.results) ELSE <<>>,
                  own |-> IF out.recorded
                          THEN [i \in DOMAIN actions |->
                                   ExecuteTool(actions[i], outs[i], cfg.job_id, it).result]
                          ELSE <<>>,
                  ran |-> ex.ran,
                  results |-> ex.results,
                  appended |-> SubSeq(out.memory, Len(memory) + 1, Len(out.memory))])
    /\ UNCHANGED <<cfg, script, script_idx, step_records, iteration_count, action_history,
                   actions>>
    /\ UNCHANGED hitlVars
    /\ UNCHANGED notAgentVars

ScriptStepFailureExceptionsOnly(r) == IsException(r)

\* _is_script_step_failure
is_script_step_failure(r) ==
    \/ IsException(r)
    \/ /\ IsDict(r)
       /\ \/ Get(r.d, "error") \notin {None, "False", ""}
          \/ Get(r.d, "success") = "False"
          \/ /\ "payload" \in DOMAIN r.d
             /\ \/ Get(r.d.payload, "error") \notin {None, "False", ""}
                \/ Get(r.d.payload, "success") = "False"

\* the script_response dict handed to _create_completion_response
script_response(overall_status, records) ==
    DictV([operation |-> "display_message",
           payload |-> [message |-> "Executed scripted steps",
                        overall_status |-> overall_status,
                        script_steps |-> records],
           human_readable_summary |-> "Executed scripted steps"])

\* the record of one script step in step_records
step_record(idx, tool, failed) ==
    [index |-> idx, tool |-> tool, status |-> IF failed THEN "failed" ELSE "success"]

\* _run_script_mode: one step of the script (action_planned, the action entry, the
\* tool call, the observation entry) and, after a failed or the last step, the
\* completion response
ScriptStep ==
    /\ a_pc = "script"
    /\ \E outs \in OutcomeSeqs(<<script[script_idx + 1]>>) :
       LET outcome == outs[1]
           idx == script_idx + 1
           step == script[idx]
           ex == ExecuteActions(<<step>>, <<outcome>>, <<1>>, cfg.job_id, idx,
                     [done |-> <<>>, evs |-> <<>>, ran |-> <<>>,
                      store |-> executed_actions])
           r == ex.results[1]
           failure == is_script_step_failure(r)
           records == Append(step_records,
                             step_record(idx, step.tool_name,
                                         step.tool_name = None \/ failure))
           mem2 == Append(Append(memory,
                              [type |-> ACTION_TYPE, tool |-> step.tool_name,
                               script |-> "True", args |-> step.tool_args]),
                          [type |-> OBSERVATION, script |-> "True",
                           content |-> IF IsException(r) THEN DictV([error |-> r.msg])
                                       ELSE r])
           evs2 == Append(events, Ev("action_planned", idx)) \o ex.evs
           out == IF step.tool_name = None
                  THEN create_completion_response(memory, events, "Executed",
                                                  script_response("FAILED", records))
                  ELSE IF failure
                  THEN create_completion_response(mem2, evs2, "Executed",
                                                  script_response("FAILED", records))
                  ELSE IF idx = Len(script)
                  THEN create_completion_response(mem2, evs2, "Executed",
                                                  script_response("SUCCESS", records))
                  ELSE [pc |-> "script", memory |-> mem2, events |-> evs2,
                        result |-> NoResult]
       IN /\ script_idx' = idx
          /\ step_records' = records
          /\ a_pc' = out.pc
          /\ memory' = out.memory
          /\ events' = out.events
          /\ run_result' = out.result
          /\ exec_log' = IF step.tool_name = None THEN exec_log ELSE exec_log \o ex.ran
          /\ executed_actions' = IF step.tool_name = None THEN executed_actions ELSE ex.store
    /\ UNCHANGED <<cfg, script, iteration_count, action_history, observation_history,
                   actions, iter_log>>
    /\ UNCHANGED hitlVars
    /\ UNCHANGED notAgentVars

AgentNext ==
    \/ \E c \in AgentConfigs, s \in Scripts : AgentRunStart(c, s)
    \/ \E po \in PlanOutcomes : AgentPlan(po)
    \/ AgentExecute
    \/ ScriptStep

(***************************************************************************)
(* The HITL policy asked about a job's executed actions                    *)
(***************************************************************************)
MaxExecuted == 2

HitlPolicies ==
    {NoHitl, [enabled |-> TRUE, scope |-> "writes"], [enabled |-> TRUE, scope |-> "all"]}

\* an agent of the job has run tool.execute(**kwargs) without an error result: the
\* signature of the call is recorded (the end of execute_tool in _execute_actions)
RecordExecutedAction(job_id, tool, args) ==
    /\ ra_phase = "idle"
    /\ Executes(Act(tool, args))
    /\ \A j \in DOMAIN executed_actions : Len(executed_actions[j]) < MaxExecuted
    /\ RelativeImportResolves(CorePackage, AgentImportLevel)
    /\ executed_actions' =
           add_executed_action(executed_actions, job_id, Signature(tool, ModelDump(tool, args)))
    /\ UNCHANGED <<ra_phase, ra_query, ra_answer>>
    /\ UNCHANGED agentVars
    /\ UNCHANGED notAgentVars

\* hitl_policy.requires_approval(tool_name, tool_args, context)
AskRequiresApproval(hitl, approvals, job_id, tool, args) ==
    /\ ra_phase = "idle"
    /\ ra_phase' = "asked"
    /\ ra_query' = [hitl |-> hitl, approvals |-> approvals, job_id |-> job_id,
                    tool_name |-> tool, tool_args |-> args]
    /\ ra_answer' = requires_approval(hitl, tool, args, approvals, job_id, executed_actions)
    /\ UNCHANGED executed_actions
    /\ UNCHANGED agentVars
    /\ UNCHANGED notAgentVars

HitlNext ==
    \/ \E j \in JobIds, t \in {"search", "add_column"}, a \in {A_x, A_xn, A_nx} :
           RecordExecutedAction(j, t, a)
    \/ \E h \in HitlPolicies, ap \in {{}, {"search"}}, j \in JobIds \cup {None},
          t \in {"search", "add_column"}, a \in {A_x, A_xn, A_nx} :
           AskRequiresApproval(h, ap, j, t, a)

(***************************************************************************)
(* ManagerAgent (core/manager_v2.py)                                       *)
(***************************************************************************)
STRATEGIC_PLAN == "strategic_plan"
SCRIPT_PLAN == "script_plan"
DELEGATION == "delegation"

\* self.name of the manager whose run is followed
ManagerName == "manager"

\* an event on the bus: its name, the actor that published it and, for an _end event,
\* its status
MEv(name, actor, status) == [name |-> name, actor |-> actor, status |-> status]

\* build_manager_end_event: the status given, else the one inferred from the result
manager_end_event(result, status) ==
    MEv("manager_end", ManagerName, IF status # None THEN status ELSE infer_status(result))

\* the workers a manager is built with: an Agent with its tools, a ManagerAgent with
\* its manager tools
AgentWorker == [kind |-> "Agent", tools |-> {"search"}]
ManagerWorker == [kind |-> "ManagerAgent", tools |-> {"route"}]

NoWorkers == [x \in {} |-> AgentWorker]
OneWorker == [x \in {"analyst"} |-> AgentWorker]
TwoWorkers == [x \in {"analyst", "team"} |-> IF x = "team" THEN ManagerWorker ELSE AgentWorker]

\* a phase of a strategic plan, a strategic plan, a step of a script
Phase(worker) == [worker |-> worker]
Plan(phases) == [phases |-> phases]
Step(worker, mode, tool_name) ==
    [worker |-> worker, mode |-> mode, tool_name |-> tool_name, args |-> <<<<"q", "x">>>>]

\* the tool_args of a delegation: an absent key is the empty list / None
MArgs(script_steps, suggested_plan, strategic_plan) ==
    [script |-> script_steps, suggested_plan |-> suggested_plan,
     strategic_plan |-> strategic_plan]
NoArgs == MArgs(<<>>, <<>>, NoneV)

MAct(tool_name, tool_args) == [tool_name |-> tool_name, tool_args |-> tool_args]

\* a manager as constructed (orchestrator: "orchestrator" is in its name), with the
\* strategic_plan argument of run
ManagerConfigs ==
    {[workers |-> w, tools |-> {"report"}, strategic_plan |-> p, orchestrator |-> o,
      job_id |-> j.job_id, job_store |-> j.job_store] :
        w \in {NoWorkers, OneWorker, TwoWorkers},
        p \in {NoneV, Plan(<<Phase("analyst"), Phase("team")>>)},
        o \in BOOLEAN,
        j \in {[job_id |-> None, job_store |-> TRUE], [job_id |-> "j1", job_store |-> TRUE],
               [job_id |-> "j1", job_store |-> FALSE]}}

\* the request context (services/request_context.py): the keys the manager writes;
\* index 0 stands for no phase or step index
\* the value of an index key the request context does not hold
NoIndex == 0 - 1

EmptyContext ==
    [strategic_plan |-> NoneV, index |-> NoIndex, job_id |-> None, director_context |-> None]

\* _inject_context: update_request_context(director_context=..., context=...) when
\* there is a context text (director_context stands for both keys, written together)
inject_context(ctx, context_text) ==
    IF context_text # None THEN [ctx EXCEPT !.director_context = context_text] ELSE ctx

\* the context text of ManagerAgent.run: the context builder's when the request has
\* a job_id (run is given no context argument)
manager_context_text(job_id) == IF job_id # None THEN "manager context" ELSE None

\* Agent._apply_execution_context with the work order of the manager: the assembled
\* context goes into the keys worker_context, context and director_context
apply_execution_context(ctx, worker_key) ==
    [ctx EXCEPT !.director_context = "work order of " \o worker_key]

\* update_request_context(strategic_plan=plan)
update_request_context(ctx, plan) == [ctx EXCEPT !.strategic_plan = plan]

\* a delegation to make: the worker, the tool_args and the strategic_plan handed to
\* _delegate_to_worker_parallel, and the index of the phase (0: not a phase)
Delegation(worker_key, tool_args, strategic_plan, idx) ==
    [tool_name |-> worker_key, tool_args |-> tool_args, strategic_plan |-> strategic_plan,
     idx |-> idx]

\* a worker that is an Agent is run without a strategic_plan argument
NotPassed == [k |-> "not passed"]

step_search == Step("analyst", "direct", "search")
step_guided == Step("analyst", "guided", None)
step_route == Step("team", "direct", "route")
step_team_guided == Step("team", "guided", None)
step_no_tool == Step("analyst", "direct", None)
step_no_worker == Step("", "direct", "search")
step_ghost == Step("ghost", "direct", "search")
step_unknown_tool == Step("analyst", "direct", "route")
step_bad_args == [Step("analyst", "direct", "search") EXCEPT !.args = <<>>]

\* what planner.plan may return: a FinalResponse, a list of actions, something that is
\* not an action, or one action
Decisions ==
    {[kind |-> "final",
      response |-> FinalResponse("display_message", [message |-> "done"], "done")],
     [kind |-> "other"]}
    \cup {[kind |-> "list", actions |-> l] :
            l \in {<<MAct("analyst", NoArgs), MAct("team", NoArgs)>>,
                   <<MAct("ghost", NoArgs)>>,
                   <<MAct("analyst", NoArgs), MAct("team", MArgs(<<step_route>>, <<>>, NoneV))>>,
                   <<MAct("team", MArgs(<<>>, <<>>, Plan(<<Phase("team"), Phase("analyst")>>))),
                     MAct("analyst", NoArgs)>>}}
    \cup {[kind |-> "action", action |-> MAct(t, a)] :
            t \in {"analyst", "team", "report", "ghost"},
            a \in {NoArgs,
                   MArgs(<<step_search, step_guided>>, <<>>, NoneV),
                   MArgs(<<step_route>>, <<>>, NoneV),
                   MArgs(<<step_search, step_team_guided>>, <<>>, NoneV),
                   MArgs(<<step_no_tool>>, <<>>, NoneV),
                   MArgs(<<step_no_worker>>, <<>>, NoneV),
                   MArgs(<<step_search, step_ghost>>, <<>>, NoneV),
                   MArgs(<<step_search, step_search, step_guided>>, <<>>, NoneV),
                   MArgs(<<step_search, step_unknown_tool>>, <<>>, NoneV),
                   MArgs(<<step_guided, step_bad_args>>, <<>>, NoneV),
                   MArgs(<<>>, <<step_guided>>, NoneV),
                   MArgs(<<>>, <<step_guided>>, Plan(<<Phase("team"), Phase("ghost")>>)),
                   MArgs(<<>>, <<>>, Plan(<<Phase("ghost"), Phase("analyst")>>)),
                   MArgs(<<>>, <<>>, Plan(<<Phase("team"), Phase("analyst")>>))}}

\* what a worker's run may return
W_ok == FinalResponse("display_message", [message |-> "ok"], "ok")
W_await ==
    FinalResponse("await_approval",
                  [tool |-> "add_column", args |-> [column |-> "c"],
                   message |-> "needs approval"],
                  "Awaiting approval")
W_failed ==
    FinalResponse("display_message", [message |-> "step failed", overall_status |-> "FAILED"],
                  "step failed")
W_error == FinalResponse("display_message", [message |-> "boom", error |-> "True"], "boom")
WorkerResults == {W_ok, W_await, W_failed, W_error}

\* what a handler leaves behind: the memory, the events and the result it returns
MOut(mem, evs, res) == [memory |-> mem, events |-> evs, result |-> res]

\* _finalize_result: manager_end with the inferred status
finalize_result(mem, evs, res) == MOut(mem, Append(evs, manager_end_event(res, None)), res)

\* _handle_final_response: a final entry, then manager_end with the inferred status
manager_handle_final_response(mem, evs, fr) ==
    MOut(Append(mem, [type |-> FINAL, content |-> fr.human_readable_summary]),
         Append(evs, manager_end_event(fr, None)), fr)

\* _create_error_response: an error event, then manager_end with status error
manager_create_error_response(mem, evs, message) ==
    LET error_response ==
            FinalResponse("display_message", [message |-> message, error |-> "True"], message)
    IN  MOut(mem,
             evs \o <<MEv("error", ManagerName, None),
                      manager_end_event(error_response, "error")>>,
             error_response)

\* a job store that holds no job, and Job(job_id=...) as create_job saves it
NoJob == [status |-> "none", pending_action |-> NoneV]
NewJob == [status |-> "running", pending_action |-> NoneV]

\* FileJobStore.save_pending_action(job_id, worker=, tool=, args=, manager=)
save_pending_action(job, worker, tool, args, manager) ==
    [status |-> "awaiting_approval",
     pending_action |-> [worker |-> worker, tool |-> tool, args |-> args,
                         manager |-> manager]]

\* the job once the approval result r has been bubbled up: _handle_approval_request
\* saves the pending action with worker "unknown" when there are a job id, a tool in
\* the payload and a job store (the save _handle_parallel_delegation makes before,
\* under the same condition, with the worker of valid_actions[0], is overwritten)
job_after_approval(mc, job, r) ==
    LET tool == GetOr(r.payload, "tool", None)
        args == GetOr(r.payload, "args", EmptyDict)
    IN  IF mc.job_id # None /\ tool # None /\ mc.job_store
        THEN save_pending_action(job, "unknown", tool, args, ManagerName)
        ELSE job

\* _handle_approval_request: manager_end with status pending
manager_handle_approval_request(mem, evs, approval_result) ==
    MOut(mem, Append(evs, manager_end_event(approval_result, "pending")), approval_result)

\* _aggregate_parallel_manager_results
aggregate_parallel_manager_results(workers_run, results) ==
    FinalResponse("display_message", [message |-> "aggregated", sections |-> results],
                  "aggregated")

\* the aggregated result of _execute_script_plan
aggregate_script_results(overall_status, results_run) ==
    FinalResponse("display_message",
                  [message |-> "Executed scripted steps", overall_status |-> overall_status,
                   worker_results |-> results_run],
                  "Executed scripted steps")

\* the events of worker.run on the shared bus: the worker's own start and end
worker_run_events(worker_key, worker, wres) ==
    IF worker.kind = "ManagerAgent"
    THEN <<MEv("manager_start", worker_key, None),
           MEv("manager_end", worker_key, infer_status(wres))>>
    ELSE <<MEv("agent_start", worker_key, None),
           MEv("agent_end", worker_key, infer_status(wres))>>

\* what worker.run is given: the strategic_plan argument (a ManagerAgent only), the
\* request context it is entered in and the one it runs in; ManagerAgent.run puts a
\* plan it is given into the request context
worker_run_given(worker_key, worker, plan, ctx) ==
    IF worker.kind = "ManagerAgent"
    THEN [worker |-> worker_key, strategic_plan |-> plan, entry |-> ctx,
          context |-> inject_context(
                          IF plan # NoneV THEN update_request_context(ctx, plan) ELSE ctx,
                          manager_context_text(ctx.job_id))]
    ELSE [worker |-> worker_key, strategic_plan |-> NotPassed, entry |-> ctx,
          context |-> apply_execution_context(ctx, worker_key)]

\* _delegate_to_worker_parallel(worker_key, ..., tool_args, strategic_plan, ...) in the
\* request context ctx, the worker's run returning wres
delegate_to_worker_parallel(workers, mem, evs, worker_key, tool_args, strategic_plan, ctx, wres) ==
    LET planned == Append(evs, MEv("delegation_planned", ManagerName, None))
        plan == IF tool_args.strategic_plan # NoneV THEN tool_args.strategic_plan
                ELSE strategic_plan
        untouched == [ctx |-> ctx, seen |-> <<>>]
    IN  IF worker_key \notin DOMAIN workers
        THEN MOut(mem, Append(planned, MEv("error", ManagerName, None)),
                  FinalResponse("display_message",
                                [message |-> "Worker not found", error |-> "True"],
                                "Worker not found")) @@ untouched
        ELSE LET worker == workers[worker_key]
                 chosen == Append(planned, MEv("delegation_chosen", ManagerName, None))
                 given == worker_run_given(worker_key, worker, plan, ctx)
             IN  IF tool_args.script # <<>> /\ worker.kind = "ManagerAgent"
                 THEN manager_create_error_response(mem, chosen,
                          "Cannot execute script steps with manager worker") @@ untouched
                 ELSE IF tool_args.script = <<>> /\ tool_args.suggested_plan # <<>>
                         /\ worker.kind = "ManagerAgent"
                 THEN manager_create_error_response(mem, chosen,
                          "Cannot provide suggested plan to manager worker") @@ untouched
                 ELSE MOut(mem \o <<[type |-> DELEGATION, worker |-> worker_key],
                                    [type |-> OBSERVATION, content |-> wres]>>,
                           chosen \o worker_run_events(worker_key, worker, wres)
                                  \o <<MEv("delegation_executed", ManagerName, None)>>,
                           wres)
                      @@ [ctx |-> given.context, seen |-> <<given>>]

\* the error _validate_script_steps finds in one step, None when it finds none
script_step_error(workers, step) ==
    IF step.worker = "" THEN "missing a worker"
    ELSE IF step.worker \notin DOMAIN workers THEN "unknown worker"
    ELSE IF step.mode = "guided" THEN None
    ELSE IF step.tool_name = None THEN "missing tool_name"
    ELSE IF step.tool_name \notin workers[step.worker].tools THEN "unknown tool"
    ELSE IF ~ModelValidates(step.tool_name, step.args) THEN "invalid args"
    ELSE None

\* _validate_script_steps: the error of the first step that has one
ValidateFirstStepOnly(workers, script_steps) ==
    IF script_steps = <<>> THEN None ELSE script_step_error(workers, Head(script_steps))
validate_script_steps(workers, script_steps) ==
    LET bad == {i \in 1..Len(script_steps) : script_step_error(workers, script_steps[i]) # None}
    IN  IF bad = {} THEN None
        ELSE script_step_error(workers,
                 script_steps[CHOOSE i \in bad : \A j \in bad : i <= j])

\* _group_script_segments: consecutive steps of one worker and one mode form a segment
RECURSIVE group_script_segments_into(_, _)
group_script_segments_into(segments, script_steps) ==
    IF script_steps = <<>> THEN segments
    ELSE LET step == Head(script_steps)
             n == Len(segments)
         IN  IF step.worker = ""
             THEN group_script_segments_into(segments, Tail(script_steps))
             ELSE IF n > 0 /\ segments[n].worker = step.worker /\ segments[n].mode = step.mode
             THEN group_script_segments_into(
                      [segments EXCEPT ![n].steps = Append(@, step)], Tail(script_steps))
             ELSE group_script_segments_into(
                      Append(segments,
                             [worker |-> step.worker, mode |-> step.mode, steps |-> <<step>>]),
                      Tail(script_steps))

group_script_segments(script_steps) == group_script_segments_into(<<>>, script_steps)

\* the segment_args of _execute_script_plan: a guided segment is a suggested plan
segment_args(segment) ==
    IF segment.mode = "guided" THEN MArgs(<<>>, segment.steps, NoneV)
    ELSE MArgs(segment.steps, <<>>, NoneV)

\* _get_script_chunk_status
ChunkAlwaysSucceeds(worker_result) == "SUCCESS"
get_script_chunk_status(worker_result) ==
    IF "overall_status" \in DOMAIN worker_result.payload
    THEN worker_result.payload.overall_status
    ELSE "SUCCESS"

\* _extract_phases
extract_phases(strategic_plan) ==
    IF strategic_plan = NoneV THEN <<>> ELSE strategic_plan.phases

\* the worker-specific plan of _execute_phases_sequentially: the current step alone
\* for the steps of a manager, None for the phases of an orchestrator
worker_strategic_plan(phase, orchestrator) ==
    IF orchestrator THEN NoneV ELSE Plan(<<phase>>)

PhaseDelegationsReversed(workers, phases, idx, tool_args, orchestrator) ==
    [i \in 1..Len(phases) |->
        Delegation(phases[Len(phases) + 1 - i].worker, NoArgs,
                   worker_strategic_plan(phases[Len(phases) + 1 - i], orchestrator),
                   Len(phases) + 1 - i)]

\* the delegations of _execute_phases_sequentially: a phase whose worker is unknown is
\* skipped, tool_args go to the phase of index 0 only (idx counts from 1 here)
RECURSIVE phase_delegations(_, _, _, _, _)
phase_delegations(workers, phases, idx, tool_args, orchestrator) ==
    IF idx > Len(phases) THEN <<>>
    ELSE LET rest == phase_delegations(workers, phases, idx + 1, tool_args, orchestrator)
         IN  IF phases[idx].worker \notin DOMAIN workers THEN rest
             ELSE <<Delegation(phases[idx].worker,
                               IF idx = 1 THEN tool_args ELSE NoArgs,
                               worker_strategic_plan(phases[idx], orchestrator),
                               idx)>> \o rest

\* a run that has returned; a run that awaits the delegations in pending
MDone(out) ==
    [pc |-> "done", memory |-> out.memory, events |-> out.events, result |-> out.result,
     mode |-> "none", pending |-> <<>>]
MDelegating(mem, evs, mode, pending) ==
    [pc |-> "delegate", memory |-> mem, events |-> evs, result |-> NoResult,
     mode |-> mode, pending |-> pending]

\* _execute_script_plan up to its first delegation
execute_script_plan(workers, mem, evs, script_steps) ==
    LET validation_error == validate_script_steps(workers, script_steps)
        planned_mem == Append(mem, [type |-> SCRIPT_PLAN, content |-> script_steps])
        planned_evs == Append(evs, MEv("manager_script_planned", ManagerName, None))
        segments == group_script_segments(script_steps)
    IN  IF validation_error # None
        THEN MDone(manager_create_error_response(mem, evs, validation_error))
        ELSE IF segments = <<>>
        THEN MDone(manager_create_error_response(planned_mem, planned_evs,
                       "Script plan did not map to any known workers"))
        ELSE MDelegating(planned_mem, planned_evs, "script",
                 [i \in 1..Len(segments) |->
                     Delegation(segments[i].worker, segment_args(segments[i]), NoneV, 0)])

\* _delegate_with_follow_ups up to its first delegation: a script plan, the phases of
\* the strategic plan, or the primary worker
delegate_with_follow_ups(mc, mem, evs, worker_key, tool_args, strategic_plan) ==
    LET workers == mc.workers
        plan == IF strategic_plan = NoneV THEN tool_args.strategic_plan ELSE strategic_plan
        phases == extract_phases(plan)
        delegations == phase_delegations(workers, phases, 1, tool_args, mc.orchestrator)
    IN  IF tool_args.script # <<>>
        THEN execute_script_plan(workers, mem, evs, tool_args.script)
        ELSE IF phases # <<>>
        THEN IF delegations = <<>>
             THEN MDone(finalize_result(mem, evs,
                            aggregate_parallel_manager_results(<<>>, <<>>)))
             ELSE MDelegating(mem, evs, "phases", delegations)
        ELSE MDelegating(mem, evs, "primary", <<Delegation(worker_key, tool_args, plan, 0)>>)

\* _execute_manager_tool: the tool runs or raises
execute_manager_tool(mem, evs, action, tool_raises) ==
    LET planned == Append(evs, MEv("action_planned", ManagerName, None))
    IN  IF tool_raises
        THEN MDone(manager_create_error_response(mem, planned, "Manager tool failed"))
        ELSE MDone(finalize_result(mem,
                       Append(planned, MEv("action_executed", ManagerName, None)),
                       FinalResponse("display_message", [message |-> "tool result"],
                                     "Executed tool")))

\* the strategic plan run goes on with: the one in the tool_args of the planner's
\* action if there is one, else the argument of run
effective_plan(mc, decision) ==
    IF decision.kind = "action" /\ decision.action.tool_args.strategic_plan # NoneV
    THEN decision.action.tool_args.strategic_plan
    ELSE mc.strategic_plan

\* ManagerAgent.run after the planner has decided, up to the first delegation
dispatch_decision(mc, mem, evs, decision, tool_raises) ==
    IF decision.kind = "final"
    THEN MDone(manager_handle_final_response(mem, evs, decision.response))
    ELSE IF decision.kind = "list"
    THEN LET valid_actions ==
                 SelectSeq(decision.actions, LAMBDA a : a.tool_name \in DOMAIN mc.workers)
         IN  IF valid_actions = <<>>
             THEN MDone(manager_create_error_response(mem, evs,
                            "Planner returned no valid worker actions"))
             ELSE MDelegating(mem, evs, "parallel",
                      [i \in 1..Len(valid_actions) |->
                          Delegation(valid_actions[i].tool_name, valid_actions[i].tool_args,
                                     mc.strategic_plan, 0)])
    ELSE IF decision.kind # "action"
    THEN MDone(manager_create_error_response(mem, evs,
                   "Planner did not return an actionable decision"))
    ELSE LET action == decision.action
             strategic_plan == effective_plan(mc, decision)
         IN  IF action.tool_name \in DOMAIN mc.workers
             THEN delegate_with_follow_ups(mc, mem, evs, action.tool_name,
                                           action.tool_args, strategic_plan)
             ELSE IF action.tool_name \in mc.tools
             THEN execute_manager_tool(mem, evs, action, tool_raises)
             ELSE MDone(manager_create_error_response(mem, evs, "Invalid action"))

\* what the caller of _delegate_to_worker_parallel does with the result d of the
\* delegation, rest being the delegations still to make
after_delegation(mode, d, evs, results, rest, follow_up) ==
    LET aggregated == aggregate_parallel_manager_results(<<>>, results)
        awaiting == {i \in 1..Len(results) : results[i].operation = "await_approval"}
        approval == MDone(manager_handle_approval_request(d.memory, evs, d.result))
    IN  IF mode = "parallel"
        THEN IF rest # <<>> THEN MDelegating(d.memory, evs, mode, rest)
             ELSE IF awaiting # {}
             THEN MDone(manager_handle_approval_request(d.memory, evs,
                            results[CHOOSE i \in awaiting : \A j \in awaiting : i <= j]))
             ELSE MDone(finalize_result(d.memory, evs, aggregated))
        ELSE IF d.result.operation = "await_approval" THEN approval
        ELSE IF mode = "script"
        THEN IF get_script_chunk_status(d.result) = "FAILED"
             THEN MDone(finalize_result(d.memory, evs,
                            aggregate_script_results("FAILED", results)))
             ELSE IF rest = <<>>
             THEN MDone(finalize_result(d.memory, evs,
                            aggregate_script_results("SUCCESS", results)))
             ELSE MDelegating(d.memory, evs, mode, rest)
        ELSE IF mode = "phases"
        THEN IF rest = <<>> THEN MDone(finalize_result(d.memory, evs, aggregated))
             ELSE MDelegating(d.memory, evs, mode, rest)
        ELSE MDone(finalize_result(d.memory, evs,
                       IF follow_up THEN aggregated ELSE d.result))

\* the request context once run has set the plan it was given and injected its
\* context text; the request carries the job_id
run_entry_context(mc) ==
    LET ctx == [EmptyContext EXCEPT !.job_id = mc.job_id]
    IN  inject_context(IF mc.strategic_plan # NoneV
                       THEN update_request_context(ctx, mc.strategic_plan)
                       ELSE ctx,
                       manager_context_text(mc.job_id))

\* run(task, strategic_plan=...) up to the planner's decision
ManagerRunStart(mc) ==
    /\ m_pc = "idle"
    /\ LET mem == <<[type |-> TASK, content |-> "task"]>>
                  \o (IF mc.strategic_plan # NoneV
                      THEN <<[type |-> STRATEGIC_PLAN, content |-> mc.strategic_plan]>>
                      ELSE <<>>)
           evs == <<MEv("manager_start", ManagerName, None)>>
           next == IF DOMAIN mc.workers = {}
                   THEN MDone(manager_create_error_response(mem, evs,
                                  "No workers available for delegation"))
                   ELSE [MDelegating(mem, evs, "none", <<>>) EXCEPT !.pc = "plan"]
       IN  /\ m_pc' = next.pc
           /\ m_memory' = next.memory
           /\ m_events' = next.events
           /\ m_result' = next.result
    /\ m_cfg' = mc
    /\ m_ctx' = run_entry_context(mc)
    /\ m_plan' = mc.strategic_plan
    /\ m_seen' = <<>>
    /\ m_job' = IF mc.job_id # None /\ mc.job_store THEN NewJob ELSE NoJob
    /\ UNCHANGED <<m_mode, m_pending, m_results>>
    /\ UNCHANGED notMgrVars

\* the planner decides and run dispatches on the decision
ManagerPlan(decision, tool_raises) ==
    /\ m_pc = "plan"
    /\ LET next == dispatch_decision(m_cfg, m_memory, m_events, decision, tool_raises)
       IN  /\ m_pc' = next.pc
           /\ m_memory' = next.memory
           /\ m_events' = next.events
           /\ m_result' = next.result
           /\ m_mode' = next.mode
           /\ m_pending' = next.pending
    /\ m_plan' = effective_plan(m_cfg, decision)
    /\ UNCHANGED <<m_cfg, m_results, m_ctx, m_seen, m_job>>
    /\ UNCHANGED notMgrVars

\* the caller's request context once a child of asyncio.gather has run: gather makes
\* each run_one a task, a task runs in a copy of the context it was created in, and
\* update_request_context sets a new dict in that copy
context_after_child(ctx, child_ctx) == ctx

\* manager_step_start/_end or orchestrator_phase_start/_end of the segment of index
\* idx - 1
segment_event(orchestrator, edge, idx) ==
    MEv((IF orchestrator THEN "orchestrator_phase_" ELSE "manager_step_") \o edge,
        ManagerName, None) @@ [index |-> idx - 1]

\* the finally of a phase of _execute_phases_sequentially: the plan the manager runs
\* is put back into the request context, None when it has none
RestoreNothing(ctx, strategic_plan) == ctx
restore_plan(ctx, strategic_plan) ==
    IF strategic_plan # NoneV THEN update_request_context(ctx, strategic_plan)
    ELSE update_request_context(ctx, NoneV)

\* one delegation: the worker's run returns wres and the caller goes on. A segment of
\* _execute_phases_sequentially sets the index and the worker's plan in the request
\* context, awaits the worker in the caller's own task and restores the plan; the
\* children of _handle_parallel_delegation run as tasks of gather, each in a copy of
\* the caller's context
ManagerDelegate(wres, follow_up) ==
    /\ m_pc = "delegate"
    /\ LET request == Head(m_pending)
           segment == m_mode = "phases"
           before == IF segment
                     THEN Append(m_events, segment_event(m_cfg.orchestrator, "start",
                                                         request.idx))
                     ELSE m_events
           ctx_in == IF segment
                     THEN [update_request_context(m_ctx, request.strategic_plan)
                              EXCEPT !.index = request.idx - 1]
                     ELSE m_ctx
           d == delegate_to_worker_parallel(m_cfg.workers, m_memory, before,
                                            request.tool_name, request.tool_args,
                                            request.strategic_plan, ctx_in, wres)
           after == IF segment
                    THEN Append(d.events, segment_event(m_cfg.orchestrator, "end",
                                                        request.idx))
                    ELSE d.events
           results == Append(m_results, d.result)
           next == after_delegation(m_mode, d, after, results, Tail(m_pending), follow_up)
           restored == restore_plan(d.ctx, m_plan)
           ctx_out == IF m_mode = "parallel" THEN context_after_child(m_ctx, d.ctx)
                      ELSE IF ~segment THEN d.ctx
                      ELSE IF Tail(m_pending) = <<>>
                              /\ d.result.operation # "await_approval"
                      THEN [restored EXCEPT !.index = NoIndex]
                      ELSE restored
       IN  /\ m_pc' = next.pc
           /\ m_memory' = next.memory
           /\ m_events' = next.events
           /\ m_result' = next.result
           /\ m_mode' = next.mode
           /\ m_pending' = next.pending
           /\ m_results' = results
           /\ m_ctx' = ctx_out
           /\ m_seen' = m_seen \o [i \in DOMAIN d.seen |->
                                     d.seen[i] @@ [mode |-> m_mode, idx |-> request.idx,
                                                   returned |-> d.result]]
           /\ m_job' = IF next.pc = "done" /\ next.result.operation = "await_approval"
                       THEN job_after_approval(m_cfg, m_job, next.result)
                       ELSE m_job
    /\ UNCHANGED <<m_cfg, m_plan>>
    /\ UNCHANGED notMgrVars

\* what m_seen holds for a worker.run that did not return
WorkerRaised == [operation |-> "raised"]

\* one delegation whose worker.run raises: nothing catches the exception on the way
\* out of run, the events published up to the worker's start stay, the memory gets no
\* entry;
\* the finally of a phase restores the plan on the way, the index keys stay
ManagerDelegateRaises ==
    /\ m_pc = "delegate"
    /\ LET request == Head(m_pending)
           segment == m_mode = "phases"
           tool_args == request.tool_args
           plan == IF tool_args.strategic_plan # NoneV THEN tool_args.strategic_plan
                   ELSE request.strategic_plan
           ctx_in == IF segment
                     THEN [update_request_context(m_ctx, request.strategic_plan)
                              EXCEPT !.index = request.idx - 1]
                     ELSE m_ctx
       IN  /\ request.tool_name \in DOMAIN m_cfg.workers
           /\ LET worker == m_cfg.workers[request.tool_name]
                  given == worker_run_given(request.tool_name, worker, plan, ctx_in)
              IN  /\ ~(worker.kind = "ManagerAgent"
                         /\ (tool_args.script # <<>> \/ tool_args.suggested_plan # <<>>))
                  /\ m_events' = m_events
                          \o (IF segment
                              THEN <<segment_event(m_cfg.orchestrator, "start", request.idx)>>
                              ELSE <<>>)
                          \o <<MEv("delegation_planned", ManagerName, None),
                               MEv("delegation_chosen", ManagerName, None),
                               MEv(IF worker.kind = "ManagerAgent" THEN "manager_start"
                                   ELSE "agent_start", request.tool_name, None)>>
                  /\ m_ctx' = IF m_mode = "parallel"
                              THEN context_after_child(m_ctx, given.context)
                              ELSE IF segment THEN restore_plan(given.context, m_plan)
                              ELSE given.context
                  /\ m_seen' = Append(m_seen,
                                      given @@ [mode |-> m_mode, idx |-> request.idx,
                                                returned |-> WorkerRaised])
    /\ m_pc' = "raised"
    /\ UNCHANGED <<m_cfg, m_memory, m_result, m_mode, m_pending, m_results, m_plan, m_job>>
    /\ UNCHANGED notMgrVars

ManagerNext ==
    \/ ManagerDelegateRaises
    \/ \E mc \in ManagerConfigs : ManagerRunStart(mc)
    \/ \E decision \in Decisions, tool_raises \in BOOLEAN : ManagerPlan(decision, tool_raises)
    \/ \E wres \in WorkerResults, follow_up \in BOOLEAN : ManagerDelegate(wres, follow_up)

(***************************************************************************)
(* The termination policy asked directly                                   *)
(***************************************************************************)
\* DefaultTerminationPolicy(max_iterations, require_terminal_tool, terminal_tools,
\* check_completion)
TerminationPolicies ==
    {[max_iterations |-> n, require_terminal_tool |-> r,
      terminal_tools |-> {"complete_task"}, check_completion |-> c] :
        n \in {0, 1, 2}, r \in BOOLEAN, c \in BOOLEAN}

\* what a planner may hand back: a FinalResponse, one Action, a list of actions, None
ProbeOutcomes ==
    {FinalAnswer, act_search, act_complete, [actions |-> <<act_search>>],
     [actions |-> <<act_search, act_complete>>], NoneV}

ProbeHistories ==
    {<<>>,
     <<[type |-> TASK, content |-> StrV("t")], [type |-> OBSERVATION, content |-> R_none]>>,
     <<[type |-> TASK, content |-> StrV("t")], [type |-> OBSERVATION, content |-> R_complete]>>}

\* a should_terminate that asks the completion detector whatever the planner returned
ShouldTerminateChecksCompletionAlways(term, iteration, plan_outcome, h) ==
    LET planned == IF "actions" \in DOMAIN plan_outcome THEN plan_outcome.actions
                   ELSE IF "tool_name" \in DOMAIN plan_outcome THEN <<plan_outcome>> ELSE <<>>
        last_obs == LastOfType(h, OBSERVATION)
    IN  \/ term.max_iterations # 0 /\ iteration > term.max_iterations
        \/ IsFinalResponse(plan_outcome)
        \/ /\ term.require_terminal_tool
           /\ \E i \in DOMAIN planned : planned[i].tool_name \in term.terminal_tools
        \/ /\ term.check_completion
           /\ last_obs # <<>>
           /\ Truthy(last_obs[1].content)
           /\ is_complete(last_obs[1].content, h)

\* DefaultTerminationPolicy.should_terminate(iteration, plan_outcome, history, context)
\* for any plan outcome
should_terminate_on(term, iteration, plan_outcome, h) ==
    LET is_action == "tool_name" \in DOMAIN plan_outcome
        is_list == "actions" \in DOMAIN plan_outcome
        planned == IF is_list THEN plan_outcome.actions
                   ELSE IF is_action THEN <<plan_outcome>> ELSE <<>>
        last_obs == LastOfType(h, OBSERVATION)
    IN  \/ term.max_iterations # 0 /\ iteration > term.max_iterations
        \/ IsFinalResponse(plan_outcome)
        \/ /\ term.require_terminal_tool
           /\ \E i \in DOMAIN planned : planned[i].tool_name \in term.terminal_tools
        \/ /\ term.check_completion
           /\ ~is_action /\ ~is_list /\ ~IsFinalResponse(plan_outcome)
           /\ last_obs # <<>>
           /\ Truthy(last_obs[1].content)
           /\ is_complete(last_obs[1].content, h)

\* termination_policy.should_terminate(iteration, plan_outcome, history, context)
AskShouldTerminate(term, iteration, plan_outcome, h) ==
    /\ st_phase = "idle"
    /\ st_phase' = "asked"
    /\ st_query' = [term |-> term, iteration |-> iteration, plan_outcome |-> plan_outcome,
                    history |-> h]
    /\ st_answer' = should_terminate_on(term, iteration, plan_outcome, h)
    /\ UNCHANGED notTermVars

TermNext ==
    \E term \in TerminationPolicies, iteration \in 1..MaxIter,
       plan_outcome \in ProbeOutcomes, h \in ProbeHistories :
        AskShouldTerminate(term, iteration, plan_outcome, h)

(***************************************************************************)
(* The request context across a fan-out                                    *)
(***************************************************************************)
MaxChildren == 3

\* the keys of the request context the claims are about and the values they take
ContextKeys == {"job_id", "strategic_plan"}
ContextValues == {None, "v1"}

\* _request_context.get() of a task that has set nothing: no key, get_from_context
\* returns None
EmptyRequestContext == [k \in ContextKeys |-> None]

\* update_request_context(key=value): a new dict {**current, key: value} is set
update_request_context_key(ctx, key, value) == [ctx EXCEPT ![key] = value]

ChildUpdateShared(children, i, key, value) ==
    [j \in DOMAIN children |->
        [ctx |-> update_request_context_key(children[j].ctx, key, value),
         own |-> IF j = i THEN children[j].own \cup {key} ELSE children[j].own]]

\* update_request_context(key=value) called in child i. A child of asyncio.gather is
\* a task and runs in a copy of the caller's context; a tool call runs in the thread
\* pool under contextvars.copy_context().run: the new dict is set in the child's own
\* copy only
child_update(children, i, key, value) ==
    [children EXCEPT ![i] = [ctx |-> update_request_context_key(@.ctx, key, value),
                             own |-> @.own \cup {key}]]

\* the caller updates the request context before the fan-out
RcSet(key, value) ==
    /\ rc_pc = "before"
    /\ rc_ctx' = update_request_context_key(rc_ctx, key, value)
    /\ UNCHANGED <<rc_pc, rc_kind, rc_spawn, rc_children>>
    /\ UNCHANGED notRcVars

\* asyncio.gather over n children: each child starts in a copy of the caller's context
RcFanOut(n, kind) ==
    /\ rc_pc = "before"
    /\ rc_pc' = "running"
    /\ rc_kind' = kind
    /\ rc_spawn' = rc_ctx
    /\ rc_children' = [i \in 1..n |-> [ctx |-> rc_ctx, own |-> {}]]
    /\ UNCHANGED rc_ctx
    /\ UNCHANGED notRcVars

\* some child updates its request context, in any interleaving with its siblings
RcChildUpdate ==
    /\ rc_pc = "running"
    /\ \E i \in DOMAIN rc_children, key \in ContextKeys, value \in ContextValues :
           rc_children' = child_update(rc_children, i, key, value)
    /\ UNCHANGED <<rc_pc, rc_kind, rc_ctx, rc_spawn>>
    /\ UNCHANGED notRcVars

\* every child has returned and gather gives the results to the caller
RcJoin ==
    /\ rc_pc = "running"
    /\ rc_pc' = "joined"
    /\ UNCHANGED <<rc_kind, rc_ctx, rc_spawn, rc_children>>
    /\ UNCHANGED notRcVars

RcNext ==
    \/ \E key \in ContextKeys, value \in ContextValues : RcSet(key, value)
    \/ \E n \in 2..MaxChildren, kind \in {"workers", "tools"} : RcFanOut(n, kind)
    \/ RcChildUpdate
    \/ RcJoin

(***************************************************************************)
(* Threads calling one SharedStateStore (components/memory.py).  A call    *)
(* takes the lock, looks its feed up in the feed dict (a defaultdict makes *)
(* and stores a new list when the feed is missing), appends to or copies   *)
(* the list, and releases the lock.                                        *)
(***************************************************************************)
\* the calls all threads make together
MaxCalls == 3

Threads == {1, 2, 3}

\* the feeds of one namespace the calls work on
FeedNames == {"agent", "global"}

ThreadCalls == {"append_agent_msg", "append_global_update", "list_agent_msgs", "list_global_updates"}

NoCall == [kind |-> "none", feed |-> "none", n |-> 0]

IsAppendCall(kind) == kind \in {"append_agent_msg", "append_global_update"}

FeedOfCall(kind) == IF kind \in {"append_agent_msg", "list_agent_msgs"} THEN "agent" ELSE "global"

\* a lock that excludes nobody
LockExcludesNobody(owner, t) == TRUE

\* threading.RLock(): free, or held by the thread that asks
lock_available(owner, t) == owner = 0 \/ owner = t

\* the list a feed name stands for
FeedList(feeds, lists, f) == IF feeds[f] = 0 THEN <<>> ELSE lists[feeds[f]]

\* a thread starts a call of the store
ThCall(t, kind) ==
    /\ th_pc[t] = "idle"
    /\ th_calls < MaxCalls
    /\ th_calls' = th_calls + 1
    /\ th_op' = [th_op EXCEPT ![t] = [kind |-> kind, feed |-> FeedOfCall(kind), n |-> th_calls + 1]]
    /\ th_pc' = [th_pc EXCEPT ![t] = "called"]
    /\ UNCHANGED <<th_lock, th_feeds, th_lists, th_ref, th_returned>>
    /\ UNCHANGED notThVars

\* with self._lock:
ThAcquire(t) ==
    /\ th_pc[t] = "called"
    /\ lock_available(th_lock, t)
    /\ th_lock' = t
    /\ th_pc' = [th_pc EXCEPT ![t] = "locked"]
    /\ UNCHANGED <<th_op, th_feeds, th_lists, th_ref, th_calls, th_returned>>
    /\ UNCHANGED notThVars

\* self._global_feeds[namespace] / self._global_feeds.get(namespace, []): the lookup
ThLookup(t) ==
    /\ th_pc[t] = "locked"
    /\ th_ref' = [th_ref EXCEPT ![t] = th_feeds[th_op[t].feed]]
    /\ th_pc' = [th_pc EXCEPT ![t] = IF th_feeds[th_op[t].feed] = 0 /\ IsAppendCall(th_op[t].kind) THEN "missing" ELSE "found"]
    /\ UNCHANGED <<th_lock, th_op, th_feeds, th_lists, th_calls, th_returned>>
    /\ UNCHANGED notThVars

\* defaultdict(list).__missing__: a new list is made and stored under the key
ThCreate(t) ==
    /\ th_pc[t] = "missing"
    /\ th_lists' = Append(th_lists, <<>>)
    /\ th_feeds' = [th_feeds EXCEPT ![th_op[t].feed] = Len(th_lists) + 1]
    /\ th_ref' = [th_ref EXCEPT ![t] = Len(th_lists) + 1]
    /\ th_pc' = [th_pc EXCEPT ![t] = "found"]
    /\ UNCHANGED <<th_lock, th_op, th_calls, th_returned>>
    /\ UNCHANGED notThVars

\* .append(dict(msg)) on the list found, or list(...) of it
ThAccess(t) ==
    /\ th_pc[t] = "found"
    /\ IF IsAppendCall(th_op[t].kind)
       THEN /\ th_lists' = [th_lists EXCEPT ![th_ref[t]] = Append(@, [thread |-> t, n |-> th_op[t].n])]
            /\ th_op' = th_op
       ELSE /\ th_lists' = th_lists
            /\ th_op' = [th_op EXCEPT ![t] = @ @@ [snapshot |-> IF th_ref[t] = 0 THEN <<>> ELSE th_lists[th_ref[t]]]]
    /\ th_pc' = [th_pc EXCEPT ![t] = "accessed"]
    /\ UNCHANGED <<th_lock, th_feeds, th_ref, th_calls, th_returned>>
    /\ UNCHANGED notThVars

\* the end of the with block: the lock is released and the call returns
ThRelease(t) ==
    /\ th_pc[t] = "accessed"
    /\ th_lock' = 0
    /\ th_returned' = th_returned \cup {th_op[t] @@ [thread |-> t]}
    /\ th_pc' = [th_pc EXCEPT ![t] = "idle"]
    /\ th_op' = [th_op EXCEPT ![t] = NoCall]
    /\ UNCHANGED <<th_feeds, th_lists, th_ref, th_calls>>
    /\ UNCHANGED notThVars

ThNext ==
    \/ \E t \in Threads, kind \in ThreadCalls : ThCall(t, kind)
    \/ \E t \in Threads : ThAcquire(t)
    \/ \E t \in Threads : ThLookup(t)
    \/ \E t \in Threads : ThCreate(t)
    \/ \E t \in Threads : ThAccess(t)
    \/ \E t \in Threads : ThRelease(t)

(***************************************************************************)
(* Workers of one job calling one FileJobStore (state/job_store.py).       *)
(* Every mutator is get_job (read the job's file), or create_job when the  *)
(* file is missing, then a change of the Job object, then save_job (write  *)
(* the .json.tmp file, rename it over the job's file).  No lock is taken,  *)
(* so the steps of two calls interleave at the file operations.            *)
(***************************************************************************)
\* the calls all workers make together
MaxJobCalls == 3

JobWorkers == {1, 2}

JobSignatures == {"sigA", "sigB"}

JobCalls == {[kind |-> "add_executed_action", signature |-> g] : g \in JobSignatures} \cup {[kind |-> "bump_phase", signature |-> None]}

NoJobCall == [kind |-> "none", signature |-> None]

\* Job(job_id=job_id, created_at=now, updated_at=now), of which the model keeps
\* executed_actions and the manager's entry of phase_index_by_manager
CreatedJob == [executed_actions |-> <<>>, phase_index |-> 0]

\* what a mutator does to the Job object between get_job and save_job
apply_job_call(job, op) ==
    IF op.kind = "add_executed_action"
    THEN [job EXCEPT !.executed_actions = IF SeqHas(@, op.signature) THEN @ ELSE Append(@, op.signature)]
    ELSE [job EXCEPT !.phase_index = @ + 1]

\* FileJobStore.has_executed_action on the job's file
file_has_executed_action(file, signature) == file # NoneV /\ SeqHas(file.executed_actions, signature)

\* a worker starts a mutator of the job store
FjCall(w, op) ==
    /\ fj_pc[w] = "idle"
    /\ fj_calls < MaxJobCalls
    /\ fj_calls' = fj_calls + 1
    /\ fj_op' = [fj_op EXCEPT ![w] = op @@ [n |-> fj_calls + 1]]
    /\ fj_pc' = [fj_pc EXCEPT ![w] = "get_job"]
    /\ UNCHANGED <<fj_file, fj_tmp, fj_job, fj_returned>>
    /\ UNCHANGED notFjVars

\* job = self.get_job(job_id) or ...: the file is read; a missing file sends to create_job
FjGetJob(w) ==
    /\ fj_pc[w] = "get_job"
    /\ fj_job' = [fj_job EXCEPT ![w] = fj_file]
    /\ fj_pc' = [fj_pc EXCEPT ![w] = IF fj_file = NoneV THEN "create_job" ELSE "write_tmp"]
    /\ UNCHANGED <<fj_file, fj_tmp, fj_op, fj_calls, fj_returned>>
    /\ UNCHANGED notFjVars

\* create_job: get_job once more; a job found is returned, else a new one is made
FjCreateJob(w) ==
    /\ fj_pc[w] = "create_job"
    /\ fj_job' = [fj_job EXCEPT ![w] = IF fj_file = NoneV THEN CreatedJob ELSE fj_file]
    /\ fj_pc' = [fj_pc EXCEPT ![w] = IF fj_file = NoneV THEN "create_write_tmp" ELSE "write_tmp"]
    /\ UNCHANGED <<fj_file, fj_tmp, fj_op, fj_calls, fj_returned>>
    /\ UNCHANGED notFjVars

\* save_job, first half: tmp.write_text(json.dumps(payload)); the mutator's change of
\* the Job object is made just before its own save_job
FjWriteTmp(w) ==
    /\ fj_pc[w] \in {"create_write_tmp", "write_tmp"}
    /\ LET job == IF fj_pc[w] = "write_tmp" THEN apply_job_call(fj_job[w], fj_op[w]) ELSE fj_job[w]
       IN  /\ fj_job' = [fj_job EXCEPT ![w] = job]
           /\ fj_tmp' = job
    /\ fj_pc' = [fj_pc EXCEPT ![w] = IF fj_pc[w] = "write_tmp" THEN "replace" ELSE "create_replace"]
    /\ UNCHANGED <<fj_file, fj_op, fj_calls, fj_returned>>
    /\ UNCHANGED notFjVars

\* save_job, second half: tmp.replace(p); FileNotFoundError when another save_job has
\* renamed the .json.tmp file away
FjReplace(w) ==
    /\ fj_pc[w] \in {"create_replace", "replace"}
    /\ IF fj_tmp = NoneV
       THEN /\ UNCHANGED <<fj_file, fj_tmp>>
            /\ fj_returned' = fj_returned \cup {fj_op[w] @@ [worker |-> w, raised |-> TRUE]}
            /\ fj_pc' = [fj_pc EXCEPT ![w] = "idle"]
       ELSE /\ fj_file' = fj_tmp
            /\ fj_tmp' = NoneV
            /\ fj_returned' = IF fj_pc[w] = "replace" THEN fj_returned \cup {fj_op[w] @@ [worker |-> w, raised |-> FALSE]} ELSE fj_returned
            /\ fj_pc' = [fj_pc EXCEPT ![w] = IF fj_pc[w] = "replace" THEN "idle" ELSE "write_tmp"]
    /\ UNCHANGED <<fj_op, fj_job, fj_calls>>
    /\ UNCHANGED notFjVars

FjNext ==
    \/ \E w \in JobWorkers, op \in JobCalls : FjCall(w, op)
    \/ \E w \in JobWorkers : FjGetJob(w)
    \/ \E w \in JobWorkers : FjCreateJob(w)
    \/ \E w \in JobWorkers : FjWriteTmp(w)
    \/ \E w \in JobWorkers : FjReplace(w)

(***************************************************************************)
(* A caller that keeps the lists the store returned and changes them       *)
(* (components/memory.py).  Lists are objects: the agent feed and the      *)
(* global feed of the caller's namespace are objects 1 and 2, and a list   *)
(* operation returns the id of the list object it hands out.               *)
(***************************************************************************)
\* the operations (adds, list calls, changes by the caller) of one behaviour
MaxListOps == 5

FeedObject(f) == IF f = "agent" THEN 1 ELSE 2

ListCalls == {"list_global_updates", "list_agent_msgs", "list_team_msgs", "InMemoryMemory.get_history", "SharedInMemoryMemory.get_history"}

\* what the caller appends to a list it was given
CallerEntry == [content |-> "Modified"]

\* the store returns the list object itself
ListReturnsFeedItself(heap, id) == [heap |-> heap, ref |-> id]

\* list(feed): a new list object with the entries of the feed
list_copy(heap, id) == [heap |-> Append(heap, heap[id]), ref |-> Len(heap) + 1]

\* a + b, and msgs = []; msgs.extend(...): a new list object with the given entries
new_list(heap, entries) == [heap |-> Append(heap, entries), ref |-> Len(heap) + 1]

\* the list object a list call hands out, and the heap after the call
list_call(heap, op) ==
    IF op = "list_global_updates" THEN list_copy(heap, FeedObject("global"))
    ELSE IF op \in {"list_agent_msgs", "InMemoryMemory.get_history"} THEN list_copy(heap, FeedObject("agent"))
    ELSE IF op = "list_team_msgs"
         THEN LET own == list_copy(heap, FeedObject("agent")) IN new_list(own.heap, own.heap[own.ref])
    ELSE LET own == list_copy(heap, FeedObject("agent"))
             glob == list_copy(own.heap, FeedObject("global"))
         IN  new_list(glob.heap, glob.heap[own.ref] \o glob.heap[glob.ref])

\* what the call is to return: the entries added to the feeds it reads, in order
ExpectedOfCall(added, op) ==
    IF op = "list_global_updates" THEN added["global"]
    ELSE IF op = "SharedInMemoryMemory.get_history" THEN added["agent"] \o added["global"]
    ELSE added["agent"]

\* add / add_global: .append(dict(msg)) on the feed
CpAdd(f) ==
    /\ cp_steps < MaxListOps
    /\ LET entry == [content |-> "m", n |-> cp_steps + 1]
       IN  /\ cp_heap' = [cp_heap EXCEPT ![FeedObject(f)] = Append(@, entry)]
           /\ cp_added' = [cp_added EXCEPT ![f] = Append(@, entry)]
    /\ cp_steps' = cp_steps + 1
    /\ UNCHANGED <<cp_held, cp_returns, cp_changes>>
    /\ UNCHANGED notCpVars

\* a list operation of the store or get_history of a memory returns a list to the caller
CpList(op) ==
    /\ cp_steps < MaxListOps
    /\ LET out == list_call(cp_heap, op)
       IN  /\ cp_heap' = out.heap
           /\ cp_held' = Append(cp_held, out.ref)
           /\ cp_returns' = Append(cp_returns, [op |-> op, result |-> out.heap[out.ref], expected |-> ExpectedOfCall(cp_added, op), changes |-> cp_changes])
    /\ cp_steps' = cp_steps + 1
    /\ UNCHANGED <<cp_added, cp_changes>>
    /\ UNCHANGED notCpVars

\* the caller appends to a list it was given
CpCallerAppend(i) ==
    /\ cp_steps < MaxListOps
    /\ i \in DOMAIN cp_held
    /\ cp_heap' = [cp_heap EXCEPT ![cp_held[i]] = Append(@, CallerEntry)]
    /\ cp_changes' = cp_changes + 1
    /\ cp_steps' = cp_steps + 1
    /\ UNCHANGED <<cp_held, cp_added, cp_returns>>
    /\ UNCHANGED notCpVars

\* the caller removes the first entry of a list it was given
CpCallerRemove(i) ==
    /\ cp_steps < MaxListOps
    /\ i \in DOMAIN cp_held
    /\ cp_heap[cp_held[i]] # <<>>
    /\ cp_heap' = [cp_heap EXCEPT ![cp_held[i]] = Tail(@)]
    /\ cp_changes' = cp_changes + 1
    /\ cp_steps' = cp_steps + 1
    /\ UNCHANGED <<cp_held, cp_added, cp_returns>>
    /\ UNCHANGED notCpVars

CpNext ==
    \/ \E f \in FeedNames : CpAdd(f)
    \/ \E op \in ListCalls : CpList(op)
    \/ \E i \in 1..MaxListOps : CpCallerAppend(i)
    \/ \E i \in 1..MaxListOps : CpCallerRemove(i)

(***************************************************************************)
(* The four history filters (policies/history_filters.py) applied to a     *)
(* history, and applied again to what they returned.                       *)
(***************************************************************************)
MaxFilterHistory == 3

USER_MESSAGE == "user_message"
ASSISTANT_MESSAGE == "assistant_message"
SYNTHESIS == "synthesis"
CONVERSATION_TYPES == <<USER_MESSAGE, ASSISTANT_MESSAGE>>

\* context.get(key) of a key that is not in the filter context
Absent == 0 - 1

\* OrchestratorHistoryFilter(max_conversation_turns=8)
DefaultMaxConversationTurns == 8

\* s[-n:] for n >= 0 (s[-0:] is s[0:], the whole list)
LastTurns(s, n) == IF n = 0 \/ Len(s) <= n THEN s ELSE SubSeq(s, Len(s) - n + 1, Len(s))

\* OrchestratorHistoryFilter.filter_for_prompt
OrchestratorFilterForPrompt(h, context) ==
    LET max_turns == IF context.max_conversation_turns = Absent THEN DefaultMaxConversationTurns ELSE context.max_conversation_turns
    IN  LastTurns(SelectSeqBy(h, SeqRange(CONVERSATION_TYPES)), max_turns)

RECURSIVE SynthesisOfPhase(_, _)
\* [e for e in history if e.get("type") == SYNTHESIS and e.get("phase_id") == phase]
SynthesisOfPhase(h, phase) ==
    IF h = <<>> THEN <<>>
    ELSE IF Get(Head(h), "type") = SYNTHESIS /\ Get(Head(h), "phase_id") = phase
         THEN <<Head(h)>> \o SynthesisOfPhase(Tail(h), phase)
         ELSE SynthesisOfPhase(Tail(h), phase)

\* ManagerHistoryFilter.filter_for_prompt
ManagerFilterForPrompt(h, context) ==
    IF context.previous_phase_id # Absent THEN SynthesisOfPhase(h, context.previous_phase_id)
    ELSE IF context.phase_id # Absent /\ context.phase_id > 0 THEN SynthesisOfPhase(h, context.phase_id - 1)
    ELSE <<>>

\* DefaultHistoryFilter.filter_for_prompt
DefaultFilterForPrompt(h, context) == h

HistoryFilters == {"orchestrator", "manager", "worker", "default"}

\* filter_for_prompt of the filter of the given kind
filter_for_prompt(kind, h, context) ==
    IF kind = "orchestrator" THEN OrchestratorFilterForPrompt(h, context)
    ELSE IF kind = "manager" THEN ManagerFilterForPrompt(h, context)
    ELSE IF kind = "worker" THEN WorkerFilterForPrompt(h)
    ELSE DefaultFilterForPrompt(h, context)

\* the entries of the histories filtered
FilterEntries ==
    {[type |-> TASK, content |-> "t"],
     [type |-> ACTION_TYPE, tool |-> "search"],
     [type |-> USER_MESSAGE, content |-> "hi"],
     [type |-> ASSISTANT_MESSAGE, content |-> "hello"],
     [type |-> SYNTHESIS, phase_id |-> 0],
     [type |-> SYNTHESIS, phase_id |-> 1]}

\* the filter contexts
FilterContexts ==
    [max_conversation_turns : {Absent, 0, 1, 2}, phase_id : {Absent, 0, 1, 2}, previous_phase_id : {Absent, 0, 1}]

\* memory.add(entry) before any prompt is built
FlAdd(e) ==
    /\ fl_applied = NoneV
    /\ Len(fl_history) < MaxFilterHistory
    /\ fl_history' = Append(fl_history, e)
    /\ UNCHANGED fl_applied
    /\ UNCHANGED notFlVars

\* a planner filters the history for its prompt, and filters what it got once more
FlApply(kind, context) ==
    /\ fl_applied = NoneV
    /\ LET once == filter_for_prompt(kind, fl_history, context)
       IN  fl_applied' = [kind |-> kind, context |-> context, once |-> once, twice |-> filter_for_prompt(kind, once, context)]
    /\ UNCHANGED fl_history
    /\ UNCHANGED notFlVars

FlNext ==
    \/ \E e \in FilterEntries : FlAdd(e)
    \/ \E kind \in HistoryFilters, context \in FilterContexts : FlApply(kind, context)

(***************************************************************************)
(* EventBus (core/events.py).  A subscriber's handle_event returns, raises *)
(* an Exception, or subscribes a further subscriber to the bus.            *)
(***************************************************************************)
MaxSubscribers == 3
MaxPublishes == 2

SubscriberBehaviours == {"returns", "raises", "subscribes"}

\* a subscriber as subscribe() appends it: its number and what its handle_event does
Subscriber(id, behaviour) == [id |-> id, behaviour |-> behaviour]

\* the subscriber list once handle_event of sub has run
subscribers_after_handle(subs, sub) ==
    IF sub.behaviour = "subscribes" THEN Append(subs, Subscriber(Len(subs) + 1, "returns")) ELSE subs

\* handle_event called with no try/except around it: an exception reaches the publisher
HandleEventUncaught(acc, sub) ==
    [acc EXCEPT !.delivered = Append(@, sub.id), !.subscribers = subscribers_after_handle(@, sub), !.propagated = (sub.behaviour = "raises")]

\* try: sub.handle_event(event_name, data) except Exception as exc: print(...)
deliver(acc, sub) ==
    [acc EXCEPT !.delivered = Append(@, sub.id), !.subscribers = subscribers_after_handle(@, sub), !.caught = IF sub.behaviour = "raises" THEN Append(@, sub.id) ELSE @]

RECURSIVE publish_loop(_, _, _)
\* for sub in list(self._subscribers): an exception that leaves the body ends the loop
publish_loop(snapshot, i, acc) ==
    IF i > Len(snapshot) \/ acc.propagated THEN acc
    ELSE publish_loop(snapshot, i + 1, deliver(acc, snapshot[i]))

\* EventBus.publish: the loop runs over a copy of the subscriber list
publish(subs) ==
    publish_loop(subs, 1, [subscribers |-> subs, delivered |-> <<>>, caught |-> <<>>, propagated |-> FALSE])

\* EventBus.subscribe
EbSubscribe(behaviour) ==
    /\ Len(eb_subscribers) < MaxSubscribers
    /\ eb_subscribers' = Append(eb_subscribers, Subscriber(Len(eb_subscribers) + 1, behaviour))
    /\ UNCHANGED eb_log
    /\ UNCHANGED notEbVars

\* EventBus.publish(event_name, data)
EbPublish ==
    /\ Len(eb_log) < MaxPublishes
    /\ LET out == publish(eb_subscribers)
       IN  /\ eb_subscribers' = out.subscribers
           /\ eb_log' = Append(eb_log, [before |-> eb_subscribers, delivered |-> out.delivered, caught |-> out.caught, propagated |-> out.propagated])
    /\ UNCHANGED notEbVars

EbNext ==
    \/ \E behaviour \in SubscriberBehaviours : EbSubscribe(behaviour)
    \/ EbPublish

(***************************************************************************)
(* The loop prevention of one run under a DefaultLoopPreventionPolicy of   *)
(* any windows and threshold (policies/default.py, core/agent.py): each    *)
(* iteration asks detect_stagnation about the two deques, then appends the *)
(* action signature and the observation text.                              *)
(***************************************************************************)
MaxLoopIterations == 4

\* DefaultLoopPreventionPolicy(action_window=, observation_window=, repetition_threshold=, ...)
LoopPreventionPolicies ==
    [enabled : {TRUE}, check_completion_in_loop : BOOLEAN, action_window : 1..3, observation_window : 1..3, repetition_threshold : 2..3]

LoopSignatures == {"search", "lookup"}

\* str(result) of the results of the run's tools
LoopObservations == {PyStr(R_none), R_json}

\* Agent.run with this loop prevention policy starts: the two deques are made
LpRunStart(policy) ==
    /\ lp_policy = NoneV
    /\ lp_policy' = policy
    /\ UNCHANGED <<lp_actions, lp_observations, lp_trace, lp_asked, lp_ended>>
    /\ UNCHANGED notLpVars

\* one iteration: the check before execution, which ends the run on a reason; else
\* the action signature and, after execution, the observation are appended
LpIterate(sig, obs) ==
    /\ lp_policy # NoneV
    /\ ~lp_ended
    /\ Len(lp_trace) < MaxLoopIterations
    /\ LET reason == detect_stagnation(lp_policy, lp_actions, lp_observations)
       IN  /\ lp_asked' = Append(lp_asked, [n |-> Len(lp_trace), reason |-> reason])
           /\ IF reason # None
              THEN /\ lp_ended' = TRUE
                   /\ UNCHANGED <<lp_actions, lp_observations, lp_trace>>
              ELSE /\ lp_ended' = FALSE
                   /\ lp_actions' = DequeAppend(lp_actions, sig, lp_policy.action_window)
                   /\ lp_observations' = DequeAppend(lp_observations, obs, lp_policy.observation_window)
                   /\ lp_trace' = Append(lp_trace, [action |-> sig, observation |-> obs])
    /\ UNCHANGED lp_policy
    /\ UNCHANGED notLpVars

LpNext ==
    \/ \E policy \in LoopPreventionPolicies : LpRunStart(policy)
    \/ \E sig \in LoopSignatures, obs \in LoopObservations : LpIterate(sig, obs)

(***************************************************************************)
(* Several planner-mode runs of one agent on one memory (core/agent.py):   *)
(* run adds its task entry to the feed the earlier runs have written.      *)
(***************************************************************************)
MaxRuns == 2
MaxRunIterations == 2

\* the batches the planner of these runs returns
RunBatches == {<<act_search>>, <<act_complete>>, <<act_search, act_complete>>}

RunPlanOutcomes == {FinalAnswer} \cup {[actions |-> b] : b \in RunBatches}

\* any(entry.get("tool") == "complete_task" for entry in history if entry.get("type") == "action")
HasCompleteTaskAction(mem) ==
    \E j \in DOMAIN mem : Get(mem[j], "type") = ACTION_TYPE /\ Get(mem[j], "tool") = "complete_task"

\* _create_completion_response("Task already completed. Stopping execution.")
TaskAlreadyCompleted == FinalResponse("display_message", [message |-> "Task already completed. Stopping execution."], "Task already completed. Stopping execution.")

\* Agent.run(task) up to the loop: the task entry is added to the feed, the deques are new
RuRunStart ==
    /\ ru_pc \in {"idle", "done"}
    /\ ru_runs < MaxRuns
    /\ ru_runs' = ru_runs + 1
    /\ ru_start' = Len(ru_memory)
    /\ ru_memory' = Append(ru_memory, [type |-> TASK, content |-> "t"])
    /\ ru_iteration' = 0
    /\ ru_history' = [ah |-> <<>>, oh |-> <<>>]
    /\ ru_actions' = <<>>
    /\ ru_pc' = "plan"
    /\ UNCHANGED ru_log
    /\ UNCHANGED notRunsVars

\* the first half of an iteration, with what the re-plan guard met
RuPlan(plan_outcome) ==
    /\ ru_pc = "plan"
    /\ ru_iteration < MaxRunIterations
    /\ LET it == ru_iteration + 1
           out == PlanStep(DefaultConfig, ru_memory, <<>>, ru_history.ah, ru_history.oh, EmptyDict, it, plan_outcome)
           reached == /\ ~(it > 1 /\ CompleteTaskObserved(ru_memory))
                      /\ ~should_terminate(DefaultConfig.term, it, plan_outcome)
       IN  /\ ru_iteration' = it
           /\ ru_pc' = out.pc
           /\ ru_memory' = out.memory
           /\ ru_actions' = out.actions
           /\ ru_history' = [ru_history EXCEPT !.ah = out.action_history]
           /\ ru_log' = Append(ru_log,
                  [run |-> ru_runs, it |-> it,
                   reached |-> reached,
                   plans_complete_task |-> reached /\ \E i \in DOMAIN plan_outcome.actions : plan_outcome.actions[i].tool_name = "complete_task",
                   executed_this_run |-> HasCompleteTaskAction(SubSeq(ru_memory, ru_start + 1, Len(ru_memory))),
                   executed_before |-> HasCompleteTaskAction(SubSeq(ru_memory, 1, ru_start)),
                   refused |-> reached /\ out.result = TaskAlreadyCompleted])
    /\ UNCHANGED <<ru_start, ru_runs>>
    /\ UNCHANGED notRunsVars

\* the second half of an iteration: _execute_actions and everything after it
RuExecute ==
    /\ ru_pc = "execute"
    /\ \E outs \in OutcomeSeqs(ru_actions) :
       LET order == [i \in DOMAIN ru_actions |-> i]
           ex == ExecuteActions(ru_actions, outs, order, None, ru_iteration, [done |-> <<>>, evs |-> <<>>, ran |-> <<>>, store |-> EmptyDict])
           out == ObserveStep(DefaultConfig, ru_memory, <<>>, ru_history.ah, ru_history.oh, ru_iteration, ru_actions, ex.results)
       IN  /\ ru_pc' = out.pc
           /\ ru_memory' = out.memory
           /\ ru_history' = [ru_history EXCEPT !.oh = out.oh]
    /\ UNCHANGED <<ru_start, ru_runs, ru_iteration, ru_actions, ru_log>>
    /\ UNCHANGED notRunsVars

RuNext ==
    \/ RuRunStart
    \/ \E po \in RunPlanOutcomes : RuPlan(po)
    \/ RuExecute

(***************************************************************************)
(* Specifications                                                          *)
(***************************************************************************)
\* the state after construction: an empty store, an empty feed
Init ==
    /\ global_feeds = EmptyDict
    /\ agent_feeds = EmptyDict
    /\ conversation_feeds = EmptyDict
    /\ clock = 0
    /\ inmem = <<>>
    /\ uuid_next = 1
    /\ lastWriteNs = None
    /\ write_log = <<>>
    /\ writes = 0
    /\ history = <<>>
    /\ hphase = "build"
    /\ filtered = <<>>
    /\ cd_result = NoneV
    /\ cd_answer = FALSE
    /\ a_pc = "idle"
    /\ cfg = DefaultConfig
    /\ memory = <<>>
    /\ events = <<>>
    /\ iteration_count = 0
    /\ action_history = <<>>
    /\ observation_history = <<>>
    /\ actions = <<>>
    /\ exec_log = <<>>
    /\ iter_log = <<>>
    /\ run_result = NoResult
    /\ script = <<>>
    /\ script_idx = 0
    /\ step_records = <<>>
    /\ executed_actions = EmptyDict
    /\ ra_phase = "idle"
    /\ ra_query = [hitl |-> NoHitl, approvals |-> {}, job_id |-> None,
                   tool_name |-> None, tool_args |-> <<>>]
    /\ ra_answer = FALSE
    /\ m_pc = "idle"
    /\ m_cfg = [job_id |-> None, job_store |-> FALSE, workers |-> NoWorkers, tools |-> {}, strategic_plan |-> NoneV,
                orchestrator |-> FALSE]
    /\ m_memory = <<>>
    /\ m_events = <<>>
    /\ m_mode = "none"
    /\ m_pending = <<>>
    /\ m_results = <<>>
    /\ m_result = NoResult
    /\ m_plan = NoneV
    /\ m_ctx = EmptyContext
    /\ m_seen = <<>>
    /\ m_job = NoJob
    /\ st_phase = "idle"
    /\ st_query = [term |-> Termination(0), iteration |-> 0, plan_outcome |-> NoneV,
                   history |-> <<>>]
    /\ st_answer = FALSE
    /\ rc_pc = "before"
    /\ rc_kind = "workers"
    /\ rc_ctx = EmptyRequestContext
    /\ rc_spawn = EmptyRequestContext
    /\ rc_children = <<>>
    /\ th_lock = 0
    /\ th_pc = [t \in Threads |-> "idle"]
    /\ th_op = [t \in Threads |-> NoCall]
    /\ th_feeds = [f \in FeedNames |-> 0]
    /\ th_lists = <<>>
    /\ th_ref = [t \in Threads |-> 0]
    /\ th_calls = 0
    /\ th_returned = {}
    /\ fj_file = NoneV
    /\ fj_tmp = NoneV
    /\ fj_pc = [w \in JobWorkers |-> "idle"]
    /\ fj_op = [w \in JobWorkers |-> NoJobCall]
    /\ fj_job = [w \in JobWorkers |-> NoneV]
    /\ fj_calls = 0
    /\ fj_returned = {}
    /\ cp_heap = <<<<>>, <<>>>>
    /\ cp_held = <<>>
    /\ cp_added = [f \in FeedNames |-> <<>>]
    /\ cp_returns = <<>>
    /\ cp_changes = 0
    /\ cp_steps = 0
    /\ fl_history = <<>>
    /\ fl_applied = NoneV
    /\ eb_subscribers = <<>>
    /\ eb_log = <<>>
    /\ lp_policy = NoneV
    /\ lp_actions = <<>>
    /\ lp_observations = <<>>
    /\ lp_trace = <<>>
    /\ lp_asked = <<>>
    /\ lp_ended = FALSE
    /\ ru_pc = "idle"
    /\ ru_memory = <<>>
    /\ ru_start = 0
    /\ ru_runs = 0
    /\ ru_iteration = 0
    /\ ru_history = [ah |-> <<>>, oh |-> <<>>]
    /\ ru_actions = <<>>
    /\ ru_log = <<>>

SpecStore == Init /\ [][StoreNext]_vars

SpecHistory == Init /\ [][HistNext]_vars

SpecAgent == Init /\ [][AgentNext]_vars

\* _execute_actions returns: a run does not stay in the execution of a batch
ToolsReturn == a_pc = "execute" /\ a_pc' \in {"plan", "done"}

\* the planner and the tools return: an iteration that can be begun is begun, and
\* the execution of a batch comes to its end
SpecAgentLive ==
    /\ Init /\ [][AgentNext]_vars
    /\ WF_vars(\E po \in PlanOutcomes : AgentPlan(po))
    /\ WF_a_pc(ToolsReturn)

SpecHITL == Init /\ [][HitlNext]_vars

SpecManager == Init /\ [][ManagerNext]_vars

SpecTermination == Init /\ [][TermNext]_vars

SpecContext == Init /\ [][RcNext]_vars

SpecThreads == Init /\ [][ThNext]_vars

SpecJobStore == Init /\ [][FjNext]_vars

SpecCopies == Init /\ [][CpNext]_vars

SpecFilters == Init /\ [][FlNext]_vars

SpecEvents == Init /\ [][EbNext]_vars

SpecLoop == Init /\ [][LpNext]_vars

SpecRuns == Init /\ [][RuNext]_vars

(***************************************************************************)
(* C1 -- namespace isolation                                               *)
(***************************************************************************)
AllNamespaces == Namespaces \cup {InMemNames[i] : i \in DOMAIN InMemNames}

\* everything an operation scoped to namespace ns can return
ReadsOf(ns) ==
    [conversation |-> list_conversation(ns),
     globals      |-> list_global_updates(ns),
     agents       |-> [k \in AgentKeys \cup {"default"} |-> list_agent_msgs(ns, k)],
     team         |-> list_team_msgs(ns, KeyOrder),
     inmemory     |-> InMemoryGetHistory(ns),
     shared       |-> [k \in AgentKeys |-> SharedGetHistory(ns, k)],
     hierarchical |-> HierarchicalGetHistory(ns, "w1", <<"w2">>)]

\* C1: a write made under one namespace changes nothing that any list operation or
\* any view's get_history returns for another namespace, and two InMemoryMemory
\* instances have distinct namespaces (so they never share entries).
C1_NamespaceIsolation ==
    [][/\ \A ns \in AllNamespaces : ns # lastWriteNs' => ReadsOf(ns)' = ReadsOf(ns)
       /\ \A i, j \in DOMAIN inmem' : i # j => inmem'[i] # inmem'[j]]_vars

\* writes have landed in two user namespaces and in two InMemoryMemory instances
C1_Witness ==
    /\ list_agent_msgs("nsA", "w1") # <<>>
    /\ list_global_updates("nsB") # <<>>
    /\ Len(inmem) = 2
    /\ InMemoryGetHistory(inmem[1]) # <<>>
    /\ InMemoryGetHistory(inmem[2]) = <<>>

(***************************************************************************)
(* C4 -- turn isolation of the worker history filter                       *)
(***************************************************************************)
LastTaskPos(h) ==
    IF \E i \in DOMAIN h : h[i].type = TASK
    THEN CHOOSE i \in DOMAIN h : h[i].type = TASK /\ \A j \in (i+1)..Len(h) : h[j].type # TASK
    ELSE 0

RECURSIVE KeepAfter(_, _)
\* the entries of h at positions > pos whose type is a trace type, in order
KeepAfter(h, pos) ==
    IF h = <<>> THEN <<>>
    ELSE LET e == Head(h)
         IN IF e.id > pos /\ e.type \in {ACTION_TYPE, OBSERVATION, ERROR, GLOBAL_OBSERVATION}
            THEN <<e>> \o KeepAfter(Tail(h), pos)
            ELSE KeepAfter(Tail(h), pos)

RECURSIVE DropEarlierTurns(_)
\* h without the turns before its last task entry
DropEarlierTurns(h) ==
    IF h = <<>> THEN <<>>
    ELSE IF \E i \in DOMAIN Tail(h) : Tail(h)[i].type = TASK
         THEN DropEarlierTurns(Tail(h))
         ELSE h

CurrentTurnIsSilent(h) ==
    \A i \in DOMAIN h :
        i > LastTaskPos(h) => h[i].type \notin {ACTION_TYPE, OBSERVATION, FINAL}

\* C5: for a result with no completion signal of its own and a history with a task
\* entry, is_complete answers what it answers on the current turn alone, and it
\* answers false when the current turn holds no action, observation or final entry,
\* whatever the earlier turns hold.
C5_CurrentTurnOnly ==
    (hphase = "checked" /\ cd_result \in PlainResults /\ LastTaskPos(history) > 0) =>
        /\ cd_answer = is_complete(cd_result, DropEarlierTurns(history))
        /\ CurrentTurnIsSilent(history) => cd_answer = FALSE

\* an earlier turn ended with complete_task; the new turn has only started
C5_Witness ==
    /\ hphase = "checked"
    /\ cd_result = R_echo
    /\ Len(history) = 4
    /\ history[1].type = TASK
    /\ history[2].type = ACTION_TYPE /\ history[2].tool = "complete_task"
    /\ history[3].type = OBSERVATION /\ history[3].content = R_complete
    /\ history[4].type = TASK
    /\ cd_answer = FALSE

(***************************************************************************)
(* C2 -- the HITL gate                                                     *)
(***************************************************************************)
\* the planner-mode step that published the action_planned events of a batch
BatchPlanned ==
    /\ a_pc = "plan"
    /\ iteration_count' = iteration_count + 1
    /\ Len(events') > Len(events)
    /\ events'[Len(events) + 1].name = "action_planned"

\* the HITL policy requires approval for at least one action of the batch
SomeActionNeedsApproval(batch) ==
    \E i \in DOMAIN batch :
        requires_approval(cfg.hitl, batch[i].tool_name, batch[i].tool_args,
                          cfg.approvals, cfg.job_id, executed_actions)

\* C2: in a planner-mode iteration, if the HITL policy requires approval for at
\* least one action of the planned batch, then no tool of the batch is executed, no
\* action or observation entry is appended to memory, and the run returns at once
\* with operation await_approval and an agent_end event whose status is pending.
C2_HitlGate ==
    [][(BatchPlanned /\ SomeActionNeedsApproval(actions')) =>
          /\ a_pc' = "done"
          /\ run_result'.operation = "await_approval"
          /\ exec_log' = exec_log
          /\ executed_actions' = executed_actions
          /\ memory' = memory
          /\ events'[Len(events')] = [name |-> "agent_end", status |-> "pending"]
          /\ \A i \in DOMAIN events' :
                 events'[i].name \in {"worker_tool_call", "action_executed"}
                     => events'[i].it < iteration_count']_vars

\* a batch whose first action needs no approval and whose second does, stopped at
\* the gate
C2_Witness ==
    /\ a_pc = "done"
    /\ script = <<>>
    /\ cfg.hitl.enabled
    /\ actions = <<act_search, act_write>>
    /\ run_result.operation = "await_approval"
    /\ exec_log = <<>>

(***************************************************************************)
(* C3 -- approval bypass                                                   *)
(***************************************************************************)
\* C3: for an enabled HITL policy and a context with a job id, if the signature of
\* (tool, canonical JSON of args) is in the job's executed_actions, then
\* requires_approval returns false, for every tool and every scope.
C3_ApprovalBypass ==
    (/\ ra_phase = "asked"
     /\ ra_query.hitl.enabled
     /\ ra_query.job_id # None
     /\ has_executed_action(executed_actions, ra_query.job_id,
                            Signature(ra_query.tool_name, ra_query.tool_args)))
        => ra_answer = FALSE

(***************************************************************************)
(* C6 -- completion monotonicity                                           *)
(***************************************************************************)
\* C6: in a planner-mode run, once a complete_task action has been executed and
\* recorded, no further action entry is appended to memory during that run,
\* whatever the complete_task tool returned.
C6_CompletionMonotonicity ==
    script = <<>> =>
        \A i, j \in DOMAIN memory :
            (/\ i < j
             /\ memory[i].type = ACTION_TYPE
             /\ memory[i].tool = "complete_task")
                => memory[j].type # ACTION_TYPE

(***************************************************************************)
(* C8 -- every action entry has its observation                            *)
(***************************************************************************)
\* C8: in the agent's memory feed every action entry appended during a run is
\* followed by exactly one observation entry (the next entry is an observation, the
\* one after it is not), and every observation entry follows an action entry, in
\* planner mode and in script mode alike.
C8_ActionThenObservation ==
    \A i \in DOMAIN memory :
        /\ memory[i].type = ACTION_TYPE =>
               /\ i < Len(memory)
               /\ memory[i + 1].type = OBSERVATION
               /\ (i + 2 <= Len(memory) => memory[i + 2].type # OBSERVATION)
        /\ memory[i].type = OBSERVATION => (i > 1 /\ memory[i - 1].type = ACTION_TYPE)

\* a finished planner-mode run that recorded a raising tool and a second action
C8_Witness ==
    /\ a_pc = "done"
    /\ script = <<>>
    /\ Len(memory) >= 5
    /\ memory[2].type = ACTION_TYPE
    /\ memory[3] = [type |-> OBSERVATION, content |-> error_obs("search")]
    /\ memory[4].type = ACTION_TYPE
    /\ memory[5].type = OBSERVATION

(***************************************************************************)
(* C9 -- event accounting                                                  *)
(***************************************************************************)
CountEvents(name, it) ==
    Cardinality({i \in DOMAIN events : events[i].name = name /\ events[i].it = it})

\* the error events of an iteration published for a tool that raised
ToolErrors(it) ==
    Cardinality({i \in DOMAIN events :
        events[i].name = "error" /\ events[i].it = it /\ events[i].details # None})

\* the actions of a batch rejected before tool.execute: unknown tool, arguments
\* that fail validation, policy denied
Rejected(batch) == Cardinality({i \in DOMAIN batch : ~Executes(batch[i])})

\* C9 as stated: for every completed planner-mode iteration, the number of
\* action_planned events equals the number of action_executed events plus the
\* number of error events of that iteration.
C9_EventAccounting ==
    script = <<>> =>
        \A k \in DOMAIN iter_log :
            LET it == iter_log[k].it
            IN CountEvents("action_planned", it)
                   = CountEvents("action_executed", it) + CountEvents("error", it)

\* C9 amended: for every completed planner-mode iteration, action_planned =
\* action_executed + error events of raising tools + actions rejected before
\* execution; the rejected actions of a batch share one error event, so planned =
\* executed + error holds whenever at most one action of the batch is rejected.
C9_EventAccountingAmended ==
    script = <<>> =>
        \A k \in DOMAIN iter_log :
            LET it == iter_log[k].it
                rejected == Rejected(iter_log[k].batch)
            IN /\ CountEvents("action_planned", it)
                      = CountEvents("action_executed", it) + ToolErrors(it) + rejected
               /\ CountEvents("error", it) - ToolErrors(it) = (IF rejected > 0 THEN 1 ELSE 0)
               /\ rejected <= 1 =>
                      CountEvents("action_planned", it)
                          = CountEvents("action_executed", it) + CountEvents("error", it)

\* a completed iteration whose batch held a rejected action and an executed one
C9_Witness ==
    /\ a_pc = "done"
    /\ script = <<>>
    /\ Len(iter_log) = 1
    /\ iter_log[1].batch = <<act_search, act_ghost>>
    /\ CountEvents("action_planned", 1) = 2
    /\ CountEvents("action_executed", 1) = 1
    /\ CountEvents("error", 1) = 1

(***************************************************************************)
(* C10 -- loop detection                                                   *)
(***************************************************************************)
\* the last n completed iterations were consecutive, recorded, single-action, and
\* had the same action and the same observation text
SameActionAndObservation(n) ==
    /\ Len(iter_log) >= n
    /\ LET tail == LastN(iter_log, n)
       IN /\ \A k \in DOMAIN tail : tail[k].recorded /\ Len(tail[k].batch) = 1
          /\ \A k \in DOMAIN tail : tail[k].it = tail[1].it + k - 1
          /\ \A k \in DOMAIN tail :
                 /\ action_signature(tail[k].batch) = action_signature(tail[1].batch)
                 /\ tail[k].obs = tail[1].obs

StagnationResponse ==
    /\ a_pc = "done"
    /\ run_result.operation = "display_message"
    /\ Get(run_result.payload, "error") = "True"
    /\ Get(run_result.payload, "stagnation") = "True"

\* C10: with loop prevention enabled and threshold T = 3, once the planner has
\* returned the same action in T consecutive iterations and the tool has returned
\* the identical observation each time, the run has returned in that iteration a
\* display_message response with payload.error and payload.stagnation true; a run
\* never returns for repetition before iteration T, and when it does, every
\* iteration up to it has executed its batch.
C10_LoopDetection ==
    script = <<>> =>
        /\ SameActionAndObservation(repetition_threshold) =>
               /\ StagnationResponse
               /\ run_result.payload.message = SamePatternRepeated
               /\ iteration_count = iter_log[Len(iter_log)].it
        /\ (StagnationResponse /\ run_result.payload.message = SamePatternRepeated) =>
               /\ iteration_count >= repetition_threshold
               /\ Len(iter_log) = iteration_count
               /\ Len(exec_log) >= repetition_threshold
               /\ RepetitionWithin(action_history, observation_history, repetition_threshold)
        /\ (StagnationResponse /\ iteration_count = repetition_threshold
            /\ \A k \in DOMAIN iter_log : Len(iter_log[k].batch) = 1) =>
               Len(exec_log) = repetition_threshold

\* search returned "none" three times in a row and the run ended for stagnation in
\* iteration 3 after three executions
C10_Witness ==
    /\ StagnationResponse
    /\ iteration_count = 3
    /\ exec_log = <<"search", "search", "search">>
    /\ \A k \in 1..3 : iter_log[k].obs = <<R_none>>

(***************************************************************************)
(* C7 -- exactly one end event per run                                     *)
(***************************************************************************)
TerminalStatuses == {"success", "pending", "error"}

\* the agent_end events of the agent's run
AgentEnds == SelectSeq(events, LAMBDA e : e.name = "agent_end")

\* the manager_end events the manager published itself
OwnManagerEnds ==
    SelectSeq(m_events, LAMBDA e : e.name = "manager_end" /\ e.actor = ManagerName)

\* C7: when Agent.run has returned the bus holds exactly one agent_end, and when
\* ManagerAgent.run has returned it holds exactly one manager_end of that manager,
\* each with status success, pending or error
C7_ExactlyOneEnd ==
    /\ a_pc = "done" =>
           /\ Len(AgentEnds) = 1
           /\ AgentEnds[1].status \in TerminalStatuses
    /\ m_pc = "done" =>
           /\ Len(OwnManagerEnds) = 1
           /\ OwnManagerEnds[1].status \in TerminalStatuses

(***************************************************************************)
(* C11 -- transient errors do not end the run                              *)
(***************************************************************************)
\* the run ended with the error response of _handle_execution_errors
EndedOnExecutionErrors ==
    /\ a_pc = "done"
    /\ Get(run_result.payload, "error") = "True"
    /\ run_result.human_readable_summary = "Errors during execution"

\* C11: in planner mode, an iteration whose batch holds an action that names an
\* unknown tool, has invalid arguments, is denied by the policy engine or whose tool
\* raises does not end the run: every action of the batch gets its observation in
\* memory (the failure as an error observation) and the run goes on to the planner.
C11_TransientErrorsContinue ==
    /\ \A k \in DOMAIN iter_log :
           /\ iter_log[k].recorded
           /\ Len(iter_log[k].obs) = Len(iter_log[k].batch)
    /\ ~EndedOnExecutionErrors

(***************************************************************************)
(* C12 -- the iteration cap is a terminal error                            *)
(***************************************************************************)
\* the planner-mode step in which the planner was called, returned actions, and the
\* iteration count exceeded max_iterations
CapFiresOnActions ==
    /\ \E po \in PlanOutcomes : ~IsFinalResponse(po) /\ AgentPlan(po)
    /\ ~CompleteTaskObserved(memory)
    /\ cfg.term.max_iterations # 0
    /\ iteration_count' > cfg.term.max_iterations

\* C12: when the termination policy fires because the iteration count exceeded
\* max_iterations while the planner was still returning actions, run returns a
\* FinalResponse with payload.error true and agent_end has status error.
C12_IterationCapIsError ==
    [][CapFiresOnActions =>
          /\ a_pc' = "done"
          /\ Get(run_result'.payload, "error") = "True"
          /\ events'[Len(events')] = [name |-> "agent_end", status |-> "error"]]_vars

(***************************************************************************)
(* C13 -- an iteration cap of 0                                            *)
(***************************************************************************)
\* C13: with max_iterations = 0, should_terminate returns true on iteration 1 for
\* every plan outcome (an Action, a list of actions, a FinalResponse) and every
\* history.
C13_CapZeroTerminates ==
    (/\ st_phase = "asked"
     /\ st_query.term.max_iterations = 0
     /\ st_query.iteration = 1
     /\ st_query.plan_outcome # NoneV)
        => st_answer = TRUE

(***************************************************************************)
(* C14 -- an error event before every error response                       *)
(***************************************************************************)
\* C14: when Agent.run or ManagerAgent.run has returned an error response of its own
\* (payload.error true), an error event was published on the bus during that run.
C14_ErrorEventBeforeErrorResponse ==
    /\ (a_pc = "done" /\ Get(run_result.payload, "error") = "True")
           => \E i \in DOMAIN events : events[i].name = "error"
    /\ (m_pc = "done" /\ Get(m_result.payload, "error") = "True"
           /\ m_result \notin WorkerResults)
           => \E i \in DOMAIN m_events :
                  m_events[i].name = "error" /\ m_events[i].actor = ManagerName

(***************************************************************************)
(* C15 -- script mode stops at the first failing step                      *)
(***************************************************************************)
\* the action and the observation entries script mode added to memory
ScriptActions ==
    SelectSeq(memory, LAMBDA e : e.type = ACTION_TYPE /\ Get(e, "script") = "True")
ScriptObservations ==
    SelectSeq(memory, LAMBDA e : e.type = OBSERVATION /\ Get(e, "script") = "True")

\* an observation that reports a failure: an error, or success false, at the top
\* level or in its payload
ReportsFailure(c) ==
    /\ IsDict(c)
    /\ \/ Get(c.d, "error") \notin {None, "False", ""}
       \/ Get(c.d, "success") = "False"
       \/ /\ "payload" \in DOMAIN c.d
          /\ \/ Get(c.d.payload, "error") \notin {None, "False", ""}
             \/ Get(c.d.payload, "success") = "False"

\* the steps of the script that name a tool, among the first n
NamedSteps(n) == SelectSeq(SubSeq(script, 1, n), LAMBDA st : st.tool_name # None)

\* C15: in script mode the steps are taken in list order, one record per step taken;
\* only the last record can be marked failed and it is marked failed exactly when
\* the step named no tool or its observation reports a failure; no tool of a later
\* step is executed and no entry of a later step is recorded; when the run has
\* returned, script_steps is that list of records, and overall_status is FAILED
\* when its last record is failed and SUCCESS, with every step taken, otherwise.
C15_ScriptShortCircuit ==
    script # <<>> =>
        LET n == Len(step_records)
            named == NamedSteps(n)
        IN  /\ n = script_idx /\ n <= Len(script)
            /\ \A k \in 1..n :
                   /\ step_records[k].index = k
                   /\ step_records[k].tool = script[k].tool_name
                   /\ k < n => step_records[k].status = "success"
                   /\ k < n => script[k].tool_name # None
            /\ Len(ScriptActions) = Len(named) /\ Len(ScriptObservations) = Len(named)
            /\ \A k \in 1..Len(named) :
                   /\ ScriptActions[k].tool = named[k].tool_name
                   /\ (step_records[k].status = "failed")
                          = ReportsFailure(ScriptObservations[k].content)
            /\ exec_log = [k \in 1..Len(exec_log) |->
                               SelectSeq(named, LAMBDA st : Executes(st))[k].tool_name]
            /\ Len(exec_log) = Len(SelectSeq(named, LAMBDA st : Executes(st)))
            /\ a_pc = "script" =>
                   /\ n < Len(script)
                   /\ \A k \in 1..n : step_records[k].status = "success"
            /\ a_pc = "done" =>
                   /\ n >= 1
                   /\ run_result.payload.script_steps = step_records
                   /\ (run_result.payload.overall_status = "FAILED")
                          = (step_records[n].status = "failed")
                   /\ run_result.payload.overall_status \in {"FAILED", "SUCCESS"}
                   /\ run_result.payload.overall_status = "SUCCESS" => n = Len(script)
                   /\ script[n].tool_name = None => step_records[n].status = "failed"

\* a three-step script whose second step fails: two records, the third step never
\* taken
C15_Witness ==
    /\ a_pc = "done"
    /\ script = <<act_search, act_search_bad, act_write>>
    /\ Len(step_records) = 2
    /\ step_records[2].status = "failed"
    /\ exec_log = <<"search">>
    /\ run_result.payload.overall_status = "FAILED"


\* the segment events run has published, in order of publication
SegmentEvents == SelectSeq(m_events, LAMBDA e : "index" \in DOMAIN e)

IsSegmentStart(e) == e.name \in {"manager_step_start", "orchestrator_phase_start"}
IsSegmentEnd(e) == e.name \in {"manager_step_end", "orchestrator_phase_end"}

\* the positions in m_events of the events a worker's run publishes
WorkerEventPositions ==
    {k \in DOMAIN m_events : m_events[k].name \in {"manager_start", "manager_end",
                                                    "agent_start", "agent_end"}
                             /\ m_events[k].actor # ManagerName}

\* C16: phase execution is strictly sequential. The segment events are start(i) then
\* end(i) for each executed phase, in increasing index order, with no start(j) between
\* a start(i) and its end(i), and while phases execute every worker event lies between
\* the start and the end of one segment, so that no worker starts before the worker of
\* an earlier phase has returned (a worker that raises ends the run inside its segment).
C16_PhasesSequential ==
    LET seg == SegmentEvents
        pos == {k \in DOMAIN m_events : "index" \in DOMAIN m_events[k]}
    IN  /\ Len(seg) % 2 = 0 \/ m_pc = "raised"
        /\ \A k \in DOMAIN seg :
               IF k % 2 = 1
               THEN /\ IsSegmentStart(seg[k])
                    /\ k > 2 => seg[k].index > seg[k - 2].index
               ELSE /\ IsSegmentEnd(seg[k])
                    /\ seg[k].index = seg[k - 1].index
        /\ pos # {} =>
               \A w \in WorkerEventPositions :
                   \/ \E a, b \in pos :
                          /\ a < w /\ w < b
                          /\ IsSegmentStart(m_events[a]) /\ IsSegmentEnd(m_events[b])
                          /\ m_events[a].index = m_events[b].index
                          /\ \A c \in pos : ~(a < c /\ c < b)
                   \/ /\ m_pc = "raised"
                      /\ \E a \in pos :
                            /\ a < w /\ IsSegmentStart(m_events[a])
                            /\ \A c \in pos : c <= a

\* two phases have executed, each with its worker
C16_Witness ==
    /\ Len(SegmentEvents) = 4
    /\ SegmentEvents[1].index = 0 /\ SegmentEvents[3].index = 1
    /\ WorkerEventPositions # {}
    /\ m_pc = "done"


\* the single-step plan of the phase a worker was delegated
SingleStepPlan(given) == Plan(<<m_plan.phases[given.idx]>>)

\* C17: during the delegation of phase i the strategic plan the worker sees, as the
\* argument of run and in the request context, is the single-step plan of phase i,
\* and the request context never holds the manager's full multi-phase plan while a
\* worker runs; for the phases of an orchestrator and for the steps of a manager.
C17_WorkerSeesOnlyItsPhase ==
    \A k \in DOMAIN m_seen :
        m_seen[k].mode = "phases" =>
            /\ m_seen[k].context.strategic_plan = SingleStepPlan(m_seen[k])
            /\ m_seen[k].strategic_plan \in {NotPassed, SingleStepPlan(m_seen[k])}
            /\ m_seen[k].context.strategic_plan # m_plan

\* the full plan reached a worker: a worker of a phase ran with the manager's
\* multi-phase plan in its request context
C17_FullPlanSeen ==
    \E k \in DOMAIN m_seen :
        /\ m_seen[k].mode = "phases"
        /\ Len(m_plan.phases) > 1
        /\ m_seen[k].context.strategic_plan = m_plan


\* the request context of run when the planner is asked: the job_id, the plan run
\* was given and the context text run has injected
ContextBeforeFanOut == run_entry_context(m_cfg)

\* every worker of a parallel delegation of ManagerAgent.run is entered in the
\* request context set before the fan-out, whatever its siblings have put into theirs
ParallelWorkersEnterInFanOutContext ==
    \A k \in DOMAIN m_seen :
        m_seen[k].mode = "parallel" => m_seen[k].entry = ContextBeforeFanOut

\* a worker of a parallel delegation has changed its request context and a sibling
\* has run after it
ParallelWorkerChangedContext ==
    \E j, k \in DOMAIN m_seen :
        /\ j < k
        /\ m_seen[j].mode = "parallel" /\ m_seen[k].mode = "parallel"
        /\ m_seen[j].context # m_seen[j].entry


\* C18: request context does not leak between concurrent siblings. While the children
\* of a fan-out run and after they have returned, every child sees for every key the
\* value set before the fan-out unless it has updated the key itself, and the caller's
\* context is the one it had at the fan-out.
C18_NoLeakBetweenSiblings ==
    rc_pc \in {"running", "joined"} =>
        /\ \A i \in DOMAIN rc_children :
               \A key \in ContextKeys \ rc_children[i].own :
                   rc_children[i].ctx[key] = rc_spawn[key]
        /\ rc_ctx = rc_spawn

\* values were set before the fan-out, a child has changed one of them and a sibling
\* that has not touched the key has run along with it
C18_Witness ==
    /\ rc_pc = "joined"
    /\ rc_spawn # EmptyRequestContext
    /\ \E i, j \in DOMAIN rc_children, key \in ContextKeys :
           /\ i # j
           /\ key \in rc_children[i].own
           /\ rc_children[i].ctx[key] # rc_spawn[key]
           /\ key \notin rc_children[j].own


\* the number of action entries an iteration has appended to the memory
ActionsRecorded(e) ==
    Cardinality({p \in DOMAIN e.appended : e.appended[p].type = ACTION_TYPE})

\* C19: for a batch executed concurrently in one iteration, the observation recorded
\* for the i-th action is the result of the i-th action's own tool call, and the
\* action/observation pairs are appended in batch order, for every order in which the
\* tool calls complete (the recording stops early only after a complete_task action).
C19_ObservationsZippedByIndex ==
    \A k \in DOMAIN iter_log :
        iter_log[k].recorded =>
            LET e == iter_log[k]
                n == ActionsRecorded(e)
            IN  /\ n >= 1 /\ n <= Len(e.batch)
                /\ n = Len(e.batch) \/ e.batch[n].tool_name = "complete_task"
                /\ Len(e.appended) >= 2 * n
                /\ \A j \in 1..n :
                       /\ e.appended[2 * j - 1] =
                              [type |-> ACTION_TYPE, tool |-> e.batch[j].tool_name,
                               args |-> e.batch[j].tool_args]
                       /\ e.appended[2 * j] =
                              [type |-> OBSERVATION,
                               content |-> IF HasError(e.own[j])
                                           THEN error_obs(e.batch[j].tool_name)
                                           ELSE e.own[j]]

\* two actions whose tool calls returned different results, the second completing
\* first, have been recorded
C19_Witness ==
    \E k \in DOMAIN iter_log :
        /\ iter_log[k].recorded
        /\ iter_log[k].batch = <<act_search, act_write>>
        /\ iter_log[k].ran = <<"add_column", "search">>
        /\ iter_log[k].own[1] # iter_log[k].own[2]
        /\ ActionsRecorded(iter_log[k]) = 2


\* how many times tool occurs in a sequence of tool names
Occurrences(names, tool) == Cardinality({p \in DOMAIN names : names[p] = tool})

\* the actions of a batch that fail: an unknown tool, invalid arguments, a denial of
\* the policy (rejected before the call) or a tool that raised
FailedActions(e) ==
    {i \in DOMAIN e.batch :
        \/ ~Executes(e.batch[i])
        \/ IsException(e.results[i])
        \/ e.results[i] = error_payload(e.batch[i].tool_name)}

\* C20: wait-all. In a batch executed concurrently a failing action does not cancel or
\* skip its siblings: _execute_actions returns one result per action, every action
\* with a known tool, valid arguments and the policy's consent has had its tool
\* called, and its result, not an exception, is in the list at its index.
C20_WaitAll ==
    \A k \in DOMAIN iter_log :
        LET e == iter_log[k]
        IN  /\ Len(e.results) = Len(e.batch)
            /\ \A i \in DOMAIN e.batch :
                   Executes(e.batch[i]) =>
                       /\ ~IsException(e.results[i])
                       /\ Occurrences(e.ran, e.batch[i].tool_name) =
                              Cardinality({j \in DOMAIN e.batch :
                                              /\ Executes(e.batch[j])
                                              /\ e.batch[j].tool_name = e.batch[i].tool_name})

\* an action of a batch has failed first and its sibling has still run and returned
\* its result
C20_Witness ==
    \E k \in DOMAIN iter_log :
        LET e == iter_log[k]
        IN  /\ Len(e.batch) = 2
            /\ \E i, j \in DOMAIN e.batch :
                   /\ i # j
                   /\ i \in FailedActions(e)
                   /\ j \notin FailedActions(e)
                   /\ e.ran # <<>>
                   /\ e.ran[Len(e.ran)] = e.batch[j].tool_name
                   /\ (Executes(e.batch[i]) => e.ran[1] = e.batch[i].tool_name /\ Len(e.ran) = 2)


\* the delegations of the run whose worker returned an approval request
ApprovalRequests == {k \in DOMAIN m_seen : m_seen[k].returned.operation = "await_approval"}

\* C21: approval bubbling in a manager. If a worker the manager delegated to returned an
\* await_approval response, run returns that response with a manager_end of status
\* pending, and with a job id and a job store the job's pending_action holds the
\* requesting worker with the tool and args of the approval payload, the job's status
\* being awaiting_approval.
C21_ApprovalBubbles ==
    (m_pc = "done" /\ ApprovalRequests # {}) =>
        LET first == CHOOSE k \in ApprovalRequests : \A j \in ApprovalRequests : k <= j
            r == m_seen[first].returned
        IN  /\ m_result = r
            /\ m_events[Len(m_events)] = MEv("manager_end", ManagerName, "pending")
            /\ (m_cfg.job_id # None /\ m_cfg.job_store) =>
                   /\ m_job.status = "awaiting_approval"
                   /\ m_job.pending_action.worker = m_seen[first].worker
                   /\ m_job.pending_action.tool = r.payload.tool
                   /\ m_job.pending_action.args = r.payload.args

\* the same without the requesting worker: the part of C21 the code keeps
ApprovalBubblesWorkerUnknown ==
    (m_pc = "done" /\ ApprovalRequests # {}) =>
        LET first == CHOOSE k \in ApprovalRequests : \A j \in ApprovalRequests : k <= j
            r == m_seen[first].returned
        IN  /\ m_result = r
            /\ m_events[Len(m_events)] = MEv("manager_end", ManagerName, "pending")
            /\ (m_cfg.job_id # None /\ m_cfg.job_store) =>
                   /\ m_job.status = "awaiting_approval"
                   /\ m_job.pending_action.worker = "unknown"
                   /\ m_job.pending_action.tool = r.payload.tool
                   /\ m_job.pending_action.args = r.payload.args


\* the entries of the appends made with op in namespace ns (by agent key for an add),
\* in the order they were made
LogEntries(op, ns, key) ==
    LET sel == SelectSeq(write_log, LAMBDA w : w.op = op /\ w.ns = ns /\ w.key = key)
    IN  [i \in DOMAIN sel |-> sel[i].entry]

\* the append a step has made
LastWritten == write_log'[Len(write_log')]

\* C22: for two workers with distinct agent keys in one namespace, an entry written
\* with add by one never appears in the other's get_history: an add leaves the
\* get_history of every other agent key as it was (a worker's view of its manager's
\* key included) and extends the writer's own; an add_global is seen by every agent
\* key of the namespace and so is a user or assistant conversation turn.
C22_PrivateFeedsIsolated ==
    [][Len(write_log') > Len(write_log) =>
        \A ns \in Namespaces, k \in AgentKeys :
            LET before == SharedGetHistory(ns, k)
                after == SharedGetHistory(ns, k)'
                w == LastWritten
            IN  /\ (w.op = "add" /\ (w.ns # ns \/ w.key # k)) => after = before
                /\ (w.op = "add" /\ w.ns = ns /\ w.key = k) =>
                       /\ Len(after) = Len(before) + 1
                       /\ \E i \in DOMAIN after : after[i] = w.entry
                /\ (w.op = "add_global" /\ w.ns = ns) =>
                       after = Append(before, w.entry)
                /\ (w.op = "turn" /\ w.ns = ns /\ w.entry.role \in {"user", "assistant"}) =>
                       Len(after) = Len(before) + 1]_vars

\* two workers of one namespace have each written to their feed and an update was
\* broadcast in the namespace
C22_Witness ==
    /\ list_agent_msgs("nsA", "w1") # <<>>
    /\ list_agent_msgs("nsA", "w2") # <<>>
    /\ list_global_updates("nsA") # <<>>
    /\ SharedGetHistory("nsA", "w1") # SharedGetHistory("nsA", "w2")


\* the appends of the log that get_history of agent key k in namespace ns shows, in
\* the order they were made, each as the row it is shown as
VisibleAppends(ns, k) ==
    LET sel == SelectSeq(write_log,
                   LAMBDA w : /\ w.ns = ns
                              /\ \/ w.op = "add" /\ w.key = k
                                 \/ w.op = "add_global"
                                 \/ w.op = "turn" /\ w.entry.role \in {"user", "assistant"})
    IN  [i \in DOMAIN sel |->
            IF sel[i].op = "turn"
            THEN [type |-> sel[i].entry.role \o "_message", content |-> sel[i].entry.content]
            ELSE sel[i].entry]

\* C23 as stated: for any interleaving of add, add_global and conversation appends,
\* get_history returns the entries in the order they were appended.
C23_AppendOrder ==
    \A ns \in Namespaces, k \in AgentKeys :
        SharedGetHistory(ns, k) = VisibleAppends(ns, k)

\* C23: get_history returns the conversation rows, then the agent's own feed, then the
\* global feed, each feed in the order it was appended to and holding every entry
\* appended to it, unchanged; the history of an InMemoryMemory is its appends in order.
C23_AppendOrderWithinFeeds ==
    /\ \A ns \in Namespaces, k \in AgentKeys :
           SharedGetHistory(ns, k) =
               ConversationMsgs(LogEntries("turn", ns, None))
               \o LogEntries("add", ns, k)
               \o LogEntries("add_global", ns, None)
    /\ \A i \in DOMAIN inmem :
           InMemoryGetHistory(inmem[i]) = LogEntries("add", inmem[i], "default")

\* an agent has added two different entries to its feed after an update was broadcast
\* in its namespace
C23_Witness ==
    /\ Len(write_log) = 3
    /\ write_log[1].op = "add_global" /\ write_log[1].ns = "nsA"
    /\ write_log[2].op = "add" /\ write_log[2].ns = "nsA" /\ write_log[2].key = "w1"
    /\ write_log[3].op = "add" /\ write_log[3].ns = "nsA" /\ write_log[3].key = "w1"
    /\ write_log[2].entry # write_log[3].entry


\* the subordinate lists a manager's view is built with
SubordinateLists == {<<>>, <<"w2">>, <<"w1", "w2">>, <<"w2", "w1">>}

\* C24: HierarchicalSharedMemory.get_history returns the conversation entries of the
\* namespace as user_message/assistant_message rows, then the manager's own feed, then
\* the feeds of the subordinates in the order of the list, then the global feed.
C24_HierarchicalOrder ==
    \A ns \in Namespaces, k \in AgentKeys, subs \in SubordinateLists :
        HierarchicalGetHistory(ns, k, subs) =
            ConversationMsgs(LogEntries("turn", ns, None))
            \o LogEntries("add", ns, k)
            \o list_team_msgs(ns, subs)
            \o LogEntries("add_global", ns, None)

\* the same without the conversation rows: what the code returns
HierarchicalOrderWithoutConversation ==
    \A ns \in Namespaces, k \in AgentKeys, subs \in SubordinateLists :
        HierarchicalGetHistory(ns, k, subs) =
            LogEntries("add", ns, k)
            \o list_team_msgs(ns, subs)
            \o LogEntries("add_global", ns, None)

(***************************************************************************)
(* C25: when several threads call add or add_global on the same namespace  *)
(* concurrently, no write is lost or duplicated: every append that has     *)
(* returned is in its feed exactly once, the feed holds nothing but the    *)
(* appends made, with no append in flight it holds exactly as many entries *)
(* as appends have returned, and every list a reader was given is a prefix *)
(* of the feed.                                                            *)
(***************************************************************************)
ReturnedAppends(f) == {r \in th_returned : IsAppendCall(r.kind) /\ r.feed = f}

AppendsInFlight(f) == {t \in Threads : th_op[t].feed = f /\ IsAppendCall(th_op[t].kind)}

IsPrefixOf(s, l) == Len(s) <= Len(l) /\ SubSeq(l, 1, Len(s)) = s

PositionsOf(l, t, n) == {i \in 1..Len(l) : l[i] = [thread |-> t, n |-> n]}

C25_NoWriteLostOrDuplicated ==
    \A f \in FeedNames :
        LET feed == FeedList(th_feeds, th_lists, f) IN
        /\ \A r \in ReturnedAppends(f) : Cardinality(PositionsOf(feed, r.thread, r.n)) = 1
        /\ \A i, j \in 1..Len(feed) : feed[i] = feed[j] => i = j
        /\ AppendsInFlight(f) = {} => Len(feed) = Cardinality(ReturnedAppends(f))
        /\ \A r \in th_returned : (~IsAppendCall(r.kind) /\ r.feed = f) => IsPrefixOf(r.snapshot, feed)

\* appends of two threads to one feed have returned, and a reader was given a non-empty
\* list while an append was still to come
C25_Witness ==
    /\ Cardinality(ReturnedAppends("global")) >= 2
    /\ \E r \in th_returned :
           /\ r.kind = "list_global_updates"
           /\ Len(r.snapshot) >= 1
           /\ Len(r.snapshot) < Len(FeedList(th_feeds, th_lists, "global"))
    /\ \E r1, r2 \in ReturnedAppends("global") : r1.thread # r2.thread

(***************************************************************************)
(* C26: the job store is safe under concurrent use: when several workers   *)
(* of the same job call add_executed_action or bump_phase at the same      *)
(* time, no update is lost.  Once every call has returned, every signature *)
(* whose add_executed_action returned is reported by has_executed_action,  *)
(* and the phase index counts the bump_phase calls that returned.          *)
(***************************************************************************)
ReturnedJobCalls(kind) == {r \in fj_returned : r.kind = kind /\ ~r.raised}

AllJobCallsReturned == \A w \in JobWorkers : fj_pc[w] = "idle"

C26_NoUpdateLost ==
    AllJobCallsReturned =>
        /\ \A r \in ReturnedJobCalls("add_executed_action") : file_has_executed_action(fj_file, r.signature)
        /\ ReturnedJobCalls("bump_phase") # {} => fj_file # NoneV /\ fj_file.phase_index >= Cardinality(ReturnedJobCalls("bump_phase"))


(***************************************************************************)
(* C27: the list returned by get_history or by a list operation of the     *)
(* store is a defensive copy: whatever the caller has appended to or       *)
(* removed from the lists it was given, every list call returns the        *)
(* entries added to the feeds it reads, in order, and the feeds hold       *)
(* exactly the entries added.                                              *)
(***************************************************************************)
C27_DefensiveCopy ==
    /\ \A i \in DOMAIN cp_returns : cp_returns[i].result = cp_returns[i].expected
    /\ \A f \in FeedNames : cp_heap[FeedObject(f)] = cp_added[f]

\* the caller has appended to and removed from lists it was given, and a list call
\* made after these changes returned a non-empty list
C27_Witness ==
    /\ \E i \in DOMAIN cp_returns : cp_returns[i].changes >= 2 /\ cp_returns[i].result # <<>>
    /\ \E i \in DOMAIN cp_held : cp_heap[cp_held[i]] # cp_returns[i].result

(***************************************************************************)
(* C28: filter idempotence: for each history filter (orchestrator,         *)
(* manager, worker, default), every history and every filter context,      *)
(* filtering the already filtered history again gives the same result.     *)
(***************************************************************************)
C28_FilterIdempotent ==
    fl_applied # NoneV => fl_applied.twice = fl_applied.once

\* the same for the three filters that are not the worker filter
FilterIdempotentButWorker ==
    (fl_applied # NoneV /\ fl_applied.kind # "worker") => fl_applied.twice = fl_applied.once

\* the worker filter drops the task marker it looks for, so filtering what it returned
\* finds no turn and returns nothing
WorkerFilterTwiceIsEmpty ==
    (fl_applied # NoneV /\ fl_applied.kind = "worker") => fl_applied.twice = <<>>

(***************************************************************************)
(* C29: EventBus.publish delivers the event to every subscriber registered *)
(* before the call exactly once, in registration order; an exception       *)
(* raised by one subscriber is caught, does not prevent delivery to the    *)
(* later subscribers, and never propagates to the publisher.               *)
(***************************************************************************)
C29_PublishDeliversToAll ==
    \A k \in DOMAIN eb_log :
        LET p == eb_log[k] IN
        /\ p.delivered = [i \in DOMAIN p.before |-> p.before[i].id]
        /\ ~p.propagated
        /\ \A i \in DOMAIN p.before : p.before[i].behaviour = "raises" => SeqHas(p.caught, p.before[i].id)

\* a publish to three subscribers of which the first raised and another subscribed a
\* further subscriber while the event was being delivered
C29_Witness ==
    \E k \in DOMAIN eb_log :
        LET p == eb_log[k] IN
        /\ Len(p.before) >= 3
        /\ p.before[1].behaviour = "raises"
        /\ \E i \in DOMAIN p.before : p.before[i].behaviour = "subscribes"
        /\ Len(p.delivered) = Len(p.before)

(***************************************************************************)
(* C30: a DefaultLoopPreventionPolicy whose window is smaller than its     *)
(* repetition threshold never fires: detect_stagnation returns no          *)
(* stagnation reason for every action history and observation history an   *)
(* agent can accumulate, so no run ends with a stagnation error.           *)
(***************************************************************************)
WindowBelowThreshold ==
    /\ lp_policy # NoneV
    /\ \/ lp_policy.action_window < lp_policy.repetition_threshold
       \/ lp_policy.observation_window < lp_policy.repetition_threshold

C30_NeverFires ==
    WindowBelowThreshold => (~lp_ended /\ \A k \in DOMAIN lp_asked : lp_asked[k].reason = None)

\* as the code has it: with a window below the threshold the repetition rule never
\* fires; the only reason given is that of the completion check, given only when
\* check_completion_in_loop is on and the last observation signals completion
C30_RepetitionNeverFires ==
    WindowBelowThreshold =>
        \A k \in DOMAIN lp_asked :
            /\ lp_asked[k].reason # SamePatternRepeated
            /\ lp_asked[k].reason # None =>
                   /\ lp_policy.check_completion_in_loop
                   /\ lp_asked[k].n >= 1
                   /\ ObservationLooksComplete(lp_trace[lp_asked[k].n].observation)

\* under a policy with a window below the threshold the same action has given the same
\* observation threshold times in a row, and the check made after that gave no reason
C30_Witness ==
    /\ WindowBelowThreshold
    /\ \E k \in DOMAIN lp_asked :
           LET n == lp_asked[k].n
               t == lp_policy.repetition_threshold
           IN  /\ n >= t
               /\ AllSame(SubSeq(lp_trace, n - t + 1, n))
               /\ lp_asked[k].reason = None

(***************************************************************************)
(* C31: the re-plan guard is scoped to the run: a planned batch containing *)
(* complete_task is refused with a 'task already completed' response       *)
(* exactly when a complete_task action was already executed earlier in the *)
(* same run; complete_task actions executed in earlier runs on the same    *)
(* memory do not trigger the refusal.                                      *)
(***************************************************************************)
C31_ReplanGuardScopedToRun ==
    \A k \in DOMAIN ru_log :
        ru_log[k].refused <=> (ru_log[k].plans_complete_task /\ ru_log[k].executed_this_run)

\* as the code has it: the guard looks at every action entry of the feed, whichever
\* run wrote it
ReplanGuardOverWholeFeed ==
    \A k \in DOMAIN ru_log :
        ru_log[k].refused <=>
            (ru_log[k].plans_complete_task /\ (ru_log[k].executed_this_run \/ ru_log[k].executed_before))

\* inside one run the guard has refused a second complete_task
ReplanRefusedInsideRun ==
    \E k \in DOMAIN ru_log : ru_log[k].refused /\ ru_log[k].executed_this_run

(***************************************************************************)
(* C32: the termination policy runs no completion check when the planner   *)
(* has just returned actions: with require_terminal_tool off and the       *)
(* iteration within the cap (or no cap), should_terminate returns false    *)
(* for an Action or a list of actions whatever the history contains,       *)
(* a history that already holds completion signals included.               *)
(***************************************************************************)
PlannerReturnedActions ==
    /\ st_phase = "asked"
    /\ {"tool_name", "actions"} \cap DOMAIN st_query.plan_outcome # {}
    /\ ~st_query.term.require_terminal_tool
    /\ st_query.term.max_iterations = 0 \/ st_query.iteration <= st_query.term.max_iterations

C32_NoCompletionCheckOnActions == PlannerReturnedActions => st_answer = FALSE

\* the policy, with check_completion on, was asked about a list of actions over a history
\* whose last observation signals completion
C32_Witness ==
    /\ PlannerReturnedActions
    /\ st_query.term.check_completion
    /\ "actions" \in DOMAIN st_query.plan_outcome
    /\ LastOfType(st_query.history, OBSERVATION) # <<>>
    /\ is_complete(LastOfType(st_query.history, OBSERVATION)[1].content, st_query.history)
    /\ st_answer = FALSE


(***************************************************************************)
(* C33: the plan of the request context after a phase delegation           *)
(***************************************************************************)
\* a step that ends one phase delegation, the worker having returned or raised
PhaseDelegationEnds ==
    /\ m_pc = "delegate" /\ m_mode = "phases"
    /\ m_seen' # m_seen

\* C33: after each phase delegation, whether the worker returned or raised, the
\* strategic_plan of the request context is the plan the manager runs, which the
\* delegation has not changed
C33_PlanRestoredAfterPhase ==
    [][PhaseDelegationEnds =>
          /\ m_plan' = m_plan
          /\ m_ctx'.strategic_plan = m_plan]_vars

\* a phase whose worker raised, run with a plan of its own, has ended and the
\* request context holds the manager's plan
C33_Witness ==
    /\ m_pc = "raised" /\ m_mode = "phases"
    /\ m_plan # NoneV
    /\ m_ctx.strategic_plan = m_plan
    /\ \E k \in DOMAIN m_seen :
          /\ m_seen[k].returned = WorkerRaised
          /\ m_seen[k].context.strategic_plan # m_plan
          /\ m_seen[k].context.strategic_plan # NoneV


(***************************************************************************)
(* C34: a script is validated before anything is done with it              *)
(***************************************************************************)
\* a script step that is invalid: its worker is unknown or, for a direct step, the
\* tool is not one of the worker's or the args fail the tool's schema
StepInvalid(workers, step) ==
    \/ step.worker \notin DOMAIN workers
    \/ /\ step.mode # "guided"
       /\ \/ step.tool_name \notin workers[step.worker].tools
          \/ ~ModelValidates(step.tool_name, step.args)

\* the planner's decision sends run into script mode with an invalid step
PlansInvalidScript(decision) ==
    /\ decision.kind = "action"
    /\ decision.action.tool_name \in DOMAIN m_cfg.workers
    /\ \E i \in DOMAIN decision.action.tool_args.script :
          StepInvalid(m_cfg.workers, decision.action.tool_args.script[i])

EventNames(evs) == {evs[i].name : i \in DOMAIN evs}

\* C34: when any step of the script is invalid the run returns an error response,
\* no worker has been run and manager_script_planned has not been published
C34_InvalidScriptRunsNothing ==
    [][\A decision \in Decisions, tool_raises \in BOOLEAN :
          (ManagerPlan(decision, tool_raises) /\ PlansInvalidScript(decision)) =>
              /\ m_pc' = "done"
              /\ Get(m_result'.payload, "error") = "True"
              /\ m_seen' = <<>>
              /\ \A i \in DOMAIN m_memory' : m_memory'[i].type \notin {DELEGATION, SCRIPT_PLAN}
              /\ "manager_script_planned" \notin EventNames(m_events')
              /\ "delegation_chosen" \notin EventNames(m_events')]_vars

\* a script whose second step has args its tool's schema refuses was turned down
C34_Witness ==
    /\ m_pc = "done"
    /\ Get(m_result.payload, "message") = "invalid args"
    /\ m_seen = <<>>
    /\ "manager_script_planned" \notin EventNames(m_events)


(***************************************************************************)
(* C35: the segments of a script and the first one that fails              *)
(***************************************************************************)
\* the steps a segment's delegation carries
SegmentSteps(d) == d.tool_args.script \o d.tool_args.suggested_plan

RECURSIVE ConcatSegments(_)
ConcatSegments(ds) == IF ds = <<>> THEN <<>> ELSE SegmentSteps(Head(ds)) \o ConcatSegments(Tail(ds))

\* the steps of the script the manager has recorded in its memory
PlannedScript == LastOfType(m_memory, SCRIPT_PLAN)[1].content

\* the segments about to be run are the planned script cut into runs of one worker
\* and one execution mode, no two neighbours being of the same worker and mode
SegmentsPartitionScript ==
    /\ ConcatSegments(m_pending) = PlannedScript
    /\ \A i \in DOMAIN m_pending :
          LET steps == SegmentSteps(m_pending[i])
          IN  /\ steps # <<>>
              /\ \A j \in DOMAIN steps :
                    /\ steps[j].worker = m_pending[i].tool_name
                    /\ steps[j].mode = steps[1].mode
              /\ i > 1 =>
                    \/ m_pending[i - 1].tool_name # m_pending[i].tool_name
                    \/ SegmentSteps(m_pending[i - 1])[1].mode # steps[1].mode

TimesInvoked(e, t) == Cardinality({j \in DOMAIN e.ran : e.ran[j] = t})

\* the action entries of tool t the iteration e has appended with an observation
\* right after them
TimesRecorded(e, t) ==
    Cardinality({p \in DOMAIN e.appended :
                    /\ e.appended[p].type = ACTION_TYPE
                    /\ e.appended[p].tool = t
                    /\ p < Len(e.appended)
                    /\ e.appended[p + 1].type = OBSERVATION})

RecordLoopEnd(e) ==
    LET ends == {j \in DOMAIN e.batch :
                    /\ e.batch[j].tool_name = "complete_task"
                    /\ IsDict(e.results[j])
                    /\ Get(e.results[j].d, "completed") = "True"}
    IN  IF ends = {} THEN Len(e.batch) ELSE CHOOSE j \in ends : \A i \in ends : j <= i

C37_RecordedSignatureIsPolicySignature ==
    [][\A j \in JobIds, t \in {"search", "add_column"}, a \in {A_x, A_xn, A_nx} :
          RecordExecutedAction(j, t, a) =>
              has_executed_action(executed_actions', j, Signature(t, a))]_vars

\* what does hold: the store has the signature of the validated model's dump, which
\* is the policy's signature only when the dump gives the planned arguments back
RecordedSignatureIsOfModelDump ==
    [][\A j \in JobIds, t \in {"search", "add_column"}, a \in {A_x, A_xn, A_nx} :
          RecordExecutedAction(j, t, a) =>
              /\ has_executed_action(executed_actions', j, Signature(t, ModelDump(t, a)))
              /\ (json_dumps_sorted(ModelDump(t, a)) = json_dumps_sorted(a)
                     => has_executed_action(executed_actions', j, Signature(t, a)))]_vars


(***************************************************************************)
(* C38: what a worker Agent leaves in the manager's request context        *)
(***************************************************************************)
\* a step in which a worker Agent run from a phase returns
AgentPhaseReturns ==
    /\ PhaseDelegationEnds
    /\ m_pc' # "raised"
    /\ m_seen'[Len(m_seen')].strategic_plan = NotPassed

\* C38: after a worker Agent run from a phase has returned, the keys director_context
\* and context of the request context hold what the manager had set before the
\* delegation
C38_DelegationLeavesContextKeys ==
    [][AgentPhaseReturns => m_ctx'.director_context = m_ctx.director_context]_vars

\* what does hold: the keys hold the work order of the worker that has just run, the
\* job_id and the plan being the manager's
ContextKeysHoldWorkOrder ==
    [][AgentPhaseReturns =>
          /\ m_ctx'.director_context = "work order of " \o m_seen'[Len(m_seen')].worker
          /\ m_ctx'.job_id = m_ctx.job_id
          /\ m_ctx'.strategic_plan = m_plan]_vars


(***************************************************************************)
(* C39: a run that has done no work                                        *)
(***************************************************************************)
\* run has returned without having come to a delegation or to a manager tool, the
\* planner not having answered with a FinalResponse
ReturnedWithoutWork ==
    /\ m_pc = "done"
    /\ "delegation_planned" \notin EventNames(m_events)
    /\ "action_planned" \notin EventNames(m_events)
    /\ \A i \in DOMAIN m_memory : m_memory[i].type # FINAL

\* C39: a run that delegates to no worker and runs no manager tool returns an error
\* response, never an aggregate of nothing
C39_NoWorkIsAnError ==
    ReturnedWithoutWork => Get(m_result.payload, "error") = "True"

\* what does hold: without phases in the plan, a run that has done no work returns an
\* error response
NoWorkWithoutPhasesIsAnError ==
    (ReturnedWithoutWork /\ extract_phases(m_plan) = <<>>) =>
        Get(m_result.payload, "error") = "True"

\* and with phases, all of workers the manager does not have, it returns the
\* aggregate of no result
NoWorkWithPhasesIsEmptyAggregate ==
    (ReturnedWithoutWork /\ extract_phases(m_plan) # <<>>
     /\ Get(m_result.payload, "error") # "True") =>
        /\ m_result = aggregate_parallel_manager_results(<<>>, <<>>)
        /\ \A i \in DOMAIN m_plan.phases : m_plan.phases[i].worker \notin DOMAIN m_cfg.workers


(***************************************************************************)
(* C40: a run under max_iterations = N ends within N + 1 iterations        *)
(***************************************************************************)
\* a planner-mode run under DefaultTerminationPolicy(max_iterations = N), N >= 1, the
\* other policies being the default ones
RunUnderMaxIterations ==
    /\ a_pc # "idle" /\ script = <<>>
    /\ cfg.term.max_iterations >= 1
    /\ cfg = [DefaultConfig EXCEPT !.term = cfg.term]

\* the iterations begun (one call of the planner at most in each) and the batches
\* executed stay within the bound
WithinIterationBound ==
    RunUnderMaxIterations =>
        /\ iteration_count <= cfg.term.max_iterations + 1
        /\ Len(iter_log) <= cfg.term.max_iterations

\* past max_iterations the policy says stop whatever the planner has returned
StopsPastMaxIterations ==
    \A term \in TerminationPolicies, po \in ProbeOutcomes, h \in ProbeHistories :
        term.max_iterations >= 1 =>
            should_terminate_on(term, term.max_iterations + 1, po, h)

\* C40: with max_iterations = N >= 1 and the other policies at their defaults a
\* planner-mode run whose planner and tools return comes to its end, having begun at
\* most N + 1 iterations, each with one call of the planner at most, and executed at
\* most N batches, whatever the planner returns
C40_BoundedTermination ==
    /\ []WithinIterationBound
    /\ []StopsPastMaxIterations
    /\ RunUnderMaxIterations ~> (a_pc = "done")

\* a run under max_iterations = 1 has executed one batch, has asked the planner a
\* second time for more actions and has been ended by the policy
C40_Witness ==
    /\ RunUnderMaxIterations
    /\ cfg.term.max_iterations = 1
    /\ a_pc = "done"
    /\ iteration_count = 2
    /\ Len(iter_log) = 1
    /\ run_result.human_readable_summary = "Task completed (detected by termination policy)."

====
